---- MODULE Spec2Model ----
(***************************************************************************)
(* archspec_cpp: the microarchitecture entity, the descriptor store and    *)
(* the compatibility matcher, as a state machine.                          *)
(*                                                                         *)
(* The store (MicroarchitectureDatabase) is a map from names to            *)
(* descriptors plus the alias tables.  Its contents are data: they come    *)
(* from the descriptor document given to load_from_string, so each         *)
(* specification below starts from a store drawn from a bounded family of  *)
(* documents, and its actions are the queries of the library, each         *)
(* leaving its arguments and its result in `call` until the caller takes   *)
(* the result (Return).                                                    *)
(*                                                                         *)
(* Strings that the code only compares (names, vendors, features, cpu      *)
(* parts, compiler names) are TLA+ strings.  Strings that the code parses  *)
(* (versions, version constraints) are sequences of one-character          *)
(* strings, and a flag template is a sequence of tokens.                   *)
(***************************************************************************)
EXTENDS Integers, Sequences, FiniteSets, TLC

VARIABLES
    targets,          \* MicroarchitectureDatabase::targets_
    feature_aliases,  \* MicroarchitectureDatabase::feature_aliases_
    family_features,  \* MicroarchitectureDatabase::family_features_
    darwin_flags,     \* MicroarchitectureDatabase::darwin_flags_
    arm_vendors,      \* MicroarchitectureDatabase::arm_vendors_
    loaded,           \* MicroarchitectureDatabase::loaded_
    machine,          \* what get_machine() returns on this host
    platform,         \* the build: "apple" (__APPLE__) or "linux"
    static_guard,     \* the initialisation state of instance()'s local static
    threads,          \* the threads calling instance(): where each one is
    cache,            \* archspec_c: s_initialized and the statics it guards
    call              \* the query in progress: its arguments and its result

\* the tables of the store
store == <<targets, feature_aliases, family_features, darwin_flags, arm_vendors, loaded>>

\* the singleton's initialisation and the threads going through it
singleton == <<static_guard, threads, cache>>

vars == <<store, machine, platform, singleton, call>>

Range(s) == {s[i] : i \in DOMAIN s}

Contains(s, x) == \E i \in DOMAIN s : s[i] = x

EmptyMap == [k \in {} |-> {}]

(***************************************************************************)
(* Architecture constants (detect.hpp).                                    *)
(***************************************************************************)
ARCH_X86_64 == "x86_64"

ARCH_AARCH64 == "aarch64"

ARCH_PPC64LE == "ppc64le"

ARCH_PPC64 == "ppc64"

ARCH_RISCV64 == "riscv64"

(***************************************************************************)
(* std::map<std::string, Microarchitecture> iterates in ascending key      *)
(* order.  NameOrder lists every descriptor name the model uses in that    *)
(* (ASCII) order; all(db) is the iteration over a store.                   *)
(***************************************************************************)
NameOrder ==
    <<"aarch64", "armv8.1a", "core2", "haswell", "m1", "m2", "nehalem", "nocona",
      "power8le", "power9le", "ppc64", "ppc64le", "riscv64", "u74mc", "x86_64",
      "x86_64_v2", "zen", "zen2">>

all(db) == SelectSeq(NameOrder, LAMBDA n : n \in DOMAIN db)

exists(db, name) == name \in DOMAIN db

(***************************************************************************)
(* Microarchitecture entity.                                               *)
(***************************************************************************)
\* mutant: the features kept as declared
Microarchitecture_as_declared(name, parents, vendor, features, compilers, generation, cpu_part) ==
    [name |-> name, parent_names |-> parents, vendor |-> vendor, features |-> features,
     compilers |-> compilers, generation |-> generation, cpu_part |-> cpu_part]

\* the constructor: ssse3 implies sse3
Microarchitecture(name, parents, vendor, features, compilers, generation, cpu_part) ==
    [name |-> name, parent_names |-> parents, vendor |-> vendor,
     features |-> IF "ssse3" \in features /\ "sse3" \notin features
                  THEN features \cup {"sse3"}
                  ELSE features,
     compilers |-> compilers,
     generation |-> generation, cpu_part |-> cpu_part]

\* mutant: the vendor argument left empty
generic_microarchitecture_no_vendor(name) ==
    Microarchitecture(name, <<>>, "", {}, EmptyMap, 0, "")

generic_microarchitecture(name) ==
    Microarchitecture(name, <<>>, "generic", {}, EmptyMap, 0, "")

\* the inner loop of ancestors(): push_back each name not yet in result
RECURSIVE AppendMissing(_, _)
AppendMissing(result, more) ==
    IF more = <<>> THEN result
    ELSE AppendMissing(IF Contains(result, Head(more)) THEN result
                       ELSE Append(result, Head(more)),
                       Tail(more))

RECURSIVE ancestors(_, _)
RECURSIVE CollectParentAncestors(_, _, _)
\* the second loop of ancestors(): each parent found in the store contributes
\* its own ancestors
CollectParentAncestors(db, parents, result) ==
    IF parents = <<>> THEN result
    ELSE CollectParentAncestors(db, Tail(parents),
            IF exists(db, Head(parents))
            THEN AppendMissing(result, ancestors(db, db[Head(parents)]))
            ELSE result)

ancestors(db, d) == CollectParentAncestors(db, d.parent_names, d.parent_names)

\* ancestors() as src/src/microarchitecture.cpp has it: one loop over the
\* parents, each pushed as it is met and followed at once by its ancestors
RECURSIVE ancestors_interleaved(_, _)
RECURSIVE InterleaveParents(_, _, _)
InterleaveParents(db, parents, result) ==
    IF parents = <<>> THEN result
    ELSE LET pushed == Append(result, Head(parents))
         IN  InterleaveParents(db, Tail(parents),
                IF exists(db, Head(parents))
                THEN AppendMissing(pushed, ancestors_interleaved(db, db[Head(parents)]))
                ELSE pushed)

ancestors_interleaved(db, d) == InterleaveParents(db, d.parent_names, <<>>)

to_set(db, d) == {d.name} \cup Range(ancestors(db, d))

operator_eq(a, b) ==
    /\ a.name = b.name
    /\ a.vendor = b.vendor
    /\ a.features = b.features
    /\ a.parent_names = b.parent_names
    /\ a.generation = b.generation
    /\ a.cpu_part = b.cpu_part

operator_ne(a, b) == ~operator_eq(a, b)

\* mutant: only the sizes of the two sets compared
operator_lt_by_size(db, a, b) ==
    LET this_set == to_set(db, a)
        other_set == to_set(db, b)
    IN  Cardinality(this_set) < Cardinality(other_set)

\* mutant: sets of equal size let through to the subset test
operator_lt_not_proper(db, a, b) ==
    LET this_set == to_set(db, a)
        other_set == to_set(db, b)
    IN  IF Cardinality(this_set) > Cardinality(other_set) THEN FALSE
        ELSE \A elem \in this_set : elem \in other_set

operator_lt(db, a, b) ==
    LET this_set == to_set(db, a)
        other_set == to_set(db, b)
    IN  IF Cardinality(this_set) >= Cardinality(other_set) THEN FALSE
        ELSE \A elem \in this_set : elem \in other_set

operator_le(db, a, b) == operator_eq(a, b) \/ operator_lt(db, a, b)

operator_gt(db, a, b) == operator_lt(db, b, a)

operator_ge(db, a, b) == operator_le(db, b, a)

\* the ancestors that are in the store and have no parents, in ancestors()
\* order, each once
family_roots(db, d) ==
    AppendMissing(<<>>, SelectSeq(ancestors(db, d),
                                  LAMBDA n : exists(db, n) /\ db[n].parent_names = <<>>))

\* mutant: of several roots the last one
family_last_root(db, d) ==
    IF d.parent_names = <<>> THEN d.name
    ELSE LET roots == family_roots(db, d)
         IN  IF Len(roots) = 1 THEN roots[1]
             ELSE IF roots = <<>> THEN d.name ELSE roots[Len(roots)]

family(db, d) ==
    IF d.parent_names = <<>> THEN d.name
    ELSE LET roots == family_roots(db, d)
         IN  IF Len(roots) = 1 THEN roots[1]
             ELSE IF roots = <<>> THEN d.name ELSE roots[1]

\* the loop of generic() over the ancestors: best_generic and best_depth
RECURSIVE FindBestGeneric(_, _, _, _)
FindBestGeneric(db, names, best_generic_name, best_depth) ==
    IF names = <<>> THEN best_generic_name
    ELSE IF exists(db, Head(names)) /\ db[Head(names)].vendor = "generic"
    THEN LET depth == Len(ancestors(db, db[Head(names)]))
         IN  IF best_generic_name = "" \/ depth > best_depth
             THEN FindBestGeneric(db, Tail(names), Head(names), depth)
             ELSE FindBestGeneric(db, Tail(names), best_generic_name, best_depth)
    ELSE FindBestGeneric(db, Tail(names), best_generic_name, best_depth)

\* mutant: the first generic ancestor kept, whatever the depth of the others
generic_first_found(db, d) ==
    IF d.vendor = "generic" THEN d.name
    ELSE LET generics == SelectSeq(ancestors(db, d),
                            LAMBDA n : exists(db, n) /\ db[n].vendor = "generic")
         IN  IF generics = <<>> THEN family(db, d) ELSE generics[1]

generic(db, d) ==
    IF d.vendor = "generic" THEN d.name
    ELSE LET best_generic_name == FindBestGeneric(db, ancestors(db, d), "", 0)
         IN  IF best_generic_name = "" THEN family(db, d) ELSE best_generic_name

\* mutant: the alias table not consulted
has_feature_no_alias(db, aliases, families, d, feature) ==
    IF feature \in d.features THEN TRUE
    ELSE feature \in DOMAIN families /\ family(db, d) \in families[feature]

has_feature(db, aliases, families, d, feature) ==
    IF feature \in d.features THEN TRUE
    ELSE IF /\ feature \in DOMAIN aliases
            /\ \E aliased \in aliases[feature] : aliased \in d.features
         THEN TRUE
    ELSE IF /\ feature \in DOMAIN families
            /\ family(db, d) \in families[feature]
         THEN TRUE
    ELSE FALSE

(***************************************************************************)
(* Versions and version constraints (anonymous namespace of                *)
(* microarchitecture.cpp).  A version string is a sequence of              *)
(* one-character strings.                                                  *)
(***************************************************************************)
Digits == <<"0", "1", "2", "3", "4", "5", "6", "7", "8", "9">>

IsDigit(c) == Contains(Digits, c)

DigitValue(c) == (CHOOSE i \in DOMAIN Digits : Digits[i] = c) - 1

\* std::getline(ss, part, sep) until the stream ends: the runs between the
\* separators; a separator at the very end opens no further part
RECURSIVE getline_parts(_, _, _)
getline_parts(s, sep, part) ==
    IF s = <<>> THEN (IF part = <<>> THEN <<>> ELSE <<part>>)
    ELSE IF Head(s) = sep THEN <<part>> \o getline_parts(Tail(s), sep, <<>>)
    ELSE getline_parts(Tail(s), sep, Append(part, Head(s)))

RECURSIVE SkipSpaces(_)
SkipSpaces(s) == IF s # <<>> /\ Head(s) = " " THEN SkipSpaces(Tail(s)) ELSE s

RECURSIVE LeadingDigits(_)
LeadingDigits(s) ==
    IF s # <<>> /\ IsDigit(Head(s)) THEN <<Head(s)>> \o LeadingDigits(Tail(s)) ELSE <<>>

\* the decimal value of a digit run modulo 2^32, as two 16-bit halves
RECURSIVE Accumulate(_, _, _)
Accumulate(digits, hi, lo) ==
    IF digits = <<>> THEN <<hi, lo>>
    ELSE LET low == lo * 10 + DigitValue(Head(digits))
             high == hi * 10 + (low \div 65536)
         IN  Accumulate(Tail(digits), high % 65536, low % 65536)

\* the 32-bit pattern <<hi, lo>> read as a signed int
AsInt(halves) ==
    IF halves[1] >= 32768 THEN (halves[1] - 65536) * 65536 + halves[2]
    ELSE halves[1] * 65536 + halves[2]

\* negation in 32 bits: the least int is its own negation
NegateInt(v) == IF v = (-2147483647) - 1 THEN v ELSE -v

\* std::strtol(part, &end, 10) followed by static_cast<int>: optional blanks,
\* an optional sign, then the digits; nothing is converted when no digit
\* follows.  long is 64 bits wide (the linux and apple builds) and holds every
\* run of fewer than 19 digits, so the cast alone decides the value of the
\* numerals drawn below.
strtol(part) ==
    LET s == SkipSpaces(part)
        negative == s # <<>> /\ Head(s) = "-"
        body == IF s # <<>> /\ Head(s) \in {"+", "-"} THEN Tail(s) ELSE s
        digits == LeadingDigits(body)
        magnitude == AsInt(Accumulate(digits, 0, 0))
    IN  [converted |-> digits # <<>>,
         val |-> IF negative THEN NegateInt(magnitude) ELSE magnitude]

RECURSIVE ConvertParts(_)
ConvertParts(parts) ==
    IF parts = <<>> THEN <<>>
    ELSE LET part == Head(parts)
         IN  IF part # <<>> /\ strtol(part).converted
             THEN <<strtol(part).val>> \o ConvertParts(Tail(parts))
             ELSE ConvertParts(Tail(parts))

parse_version(version) == ConvertParts(getline_parts(version, ".", <<>>))

RECURSIVE CompareFrom(_, _, _)
CompareFrom(a, b, i) ==
    LET max_len == IF Len(a) >= Len(b) THEN Len(a) ELSE Len(b)
        va == IF i <= Len(a) THEN a[i] ELSE 0
        vb == IF i <= Len(b) THEN b[i] ELSE 0
    IN  IF i > max_len THEN 0
        ELSE IF va < vb THEN -1
        ELSE IF va > vb THEN 1
        ELSE CompareFrom(a, b, i + 1)

compare_versions(a, b) == CompareFrom(a, b, 1)

\* constraint.find(':'): the first position of a colon, 0 when there is none
colon_pos(constraint) ==
    IF Contains(constraint, ":")
    THEN CHOOSE i \in DOMAIN constraint :
            constraint[i] = ":" /\ \A j \in 1..(i - 1) : constraint[j] # ":"
    ELSE 0

satisfies_version(constraint, version) ==
    IF colon_pos(constraint) = 0 THEN constraint = version
    ELSE LET min_ver == SubSeq(constraint, 1, colon_pos(constraint) - 1)
             max_ver == SubSeq(constraint, colon_pos(constraint) + 1, Len(constraint))
             ver == parse_version(version)
         IN  IF min_ver # <<>> /\ compare_versions(ver, parse_version(min_ver)) < 0
             THEN FALSE
             ELSE IF max_ver # <<>> /\ compare_versions(ver, parse_version(max_ver)) > 0
             THEN FALSE
             ELSE TRUE

(***************************************************************************)
(* optimization_flags.  A flag template is a sequence of tokens; the       *)
(* placeholder {name} is the three tokens "{", "name", "}", and the name   *)
(* put in its place is one token.  The empty string is <<>>.               *)
(***************************************************************************)
Placeholder == <<"{", "name", "}">>

npos == 0

\* flags.find("{name}", pos)
find_placeholder(flags, pos) ==
    LET hits == {i \in pos..(Len(flags) - 2) : SubSeq(flags, i, i + 2) = Placeholder}
    IN  IF hits = {} THEN npos
        ELSE CHOOSE i \in hits : \A j \in hits : i <= j

NameTokens(target_name) == IF target_name = "" THEN <<>> ELSE <<target_name>>

\* mutant: the placeholder replaced once, not in a loop
replace_name_once(flags, target_name, pos) ==
    LET at == find_placeholder(flags, pos)
    IN  IF at = npos THEN flags
        ELSE SubSeq(flags, 1, at - 1) \o NameTokens(target_name)
                 \o SubSeq(flags, at + 3, Len(flags))

\* the while loop of optimization_flags: replace, then go on after the name
RECURSIVE replace_name(_, _, _)
replace_name(flags, target_name, pos) ==
    LET at == find_placeholder(flags, pos)
    IN  IF at = npos THEN flags
        ELSE replace_name(SubSeq(flags, 1, at - 1) \o NameTokens(target_name)
                              \o SubSeq(flags, at + 3, Len(flags)),
                          target_name, at + Len(NameTokens(target_name)))

\* the entries of d for the compiler; none when the compiler is not a key
compiler_entries(d, compiler) ==
    IF compiler \in DOMAIN d.compilers THEN d.compilers[compiler] ELSE <<>>

\* the body of the loop over the entries, for the first satisfied entry
format_flags(d, entry) ==
    replace_name(entry.flags, IF entry.name = "" THEN d.name ELSE entry.name, 1)

RECURSIVE optimization_flags(_, _, _, _)
RECURSIVE try_ancestors(_, _, _, _)
\* the loop over ancestors(): the first non-empty result
try_ancestors(db, names, compiler, version) ==
    IF names = <<>> THEN <<>>
    ELSE LET result == IF exists(db, Head(names))
                       THEN optimization_flags(db, db[Head(names)], compiler, version)
                       ELSE <<>>
         IN  IF result # <<>> THEN result
             ELSE try_ancestors(db, Tail(names), compiler, version)

\* mutant: the ancestors asked only for their own entries
optimization_flags_own_entries_of_ancestors(db, d, compiler, version) ==
    LET satisfied(x) == SelectSeq(compiler_entries(x, compiler),
                                  LAMBDA e : satisfies_version(e.versions, version))
        own(x) == IF satisfied(x) # <<>> THEN format_flags(x, Head(satisfied(x))) ELSE <<>>
        found == SelectSeq(ancestors(db, d),
                           LAMBDA n : exists(db, n) /\ own(db[n]) # <<>>)
    IN  IF satisfied(d) # <<>> THEN own(d)
        ELSE IF found # <<>> THEN own(db[Head(found)])
        ELSE <<>>

optimization_flags(db, d, compiler, version) ==
    LET satisfied == SelectSeq(compiler_entries(d, compiler),
                               LAMBDA e : satisfies_version(e.versions, version))
    IN  IF satisfied # <<>> THEN format_flags(d, Head(satisfied))
        ELSE try_ancestors(db, ancestors(db, d), compiler, version)

(***************************************************************************)
(* Compatibility matcher (detect).  A candidate list is a                  *)
(* std::vector<const Microarchitecture*> into the store: a sequence of     *)
(* the names of the descriptors pointed to.                                *)
(***************************************************************************)
is_in_family(db, target, family_name) ==
    \/ target.name = family_name
    \/ Contains(ancestors(db, target), family_name)

\* mutant: a generic descriptor no longer matches every vendor
vendor_matches_strict(target, info_vendor) ==
    target.vendor = info_vendor

vendor_matches(target, info_vendor) ==
    target.vendor = "generic" \/ target.vendor = info_vendor

has_required_features(target, available_features) ==
    \A feature \in target.features : feature \in available_features

check_x86_64(db, info, target) ==
    /\ is_in_family(db, target, ARCH_X86_64)
    /\ vendor_matches(target, info.vendor)
    /\ has_required_features(target, info.features)

\* mutant: generic-vendor descriptors other than aarch64 not turned away
check_aarch64_generic_admitted(db, plat, info, target) ==
    IF ~is_in_family(db, target, ARCH_AARCH64) THEN FALSE
    ELSE IF ~vendor_matches(target, info.vendor) THEN FALSE
    ELSE IF plat = "apple" THEN TRUE
    ELSE has_required_features(target, info.features)

\* #if defined(__APPLE__): the named model and its ancestors return true early,
\* and nothing after the block returns false; #else: the feature check
check_aarch64(db, plat, info, target) ==
    IF target.vendor = "generic" /\ target.name # ARCH_AARCH64 THEN FALSE
    ELSE IF ~is_in_family(db, target, ARCH_AARCH64) THEN FALSE
    ELSE IF ~vendor_matches(target, info.vendor) THEN FALSE
    ELSE IF plat = "apple" THEN TRUE
    ELSE has_required_features(target, info.features)

\* the family is the one get_machine() names, not the arch argument
check_ppc64(db, mach, info, target) ==
    /\ is_in_family(db, target, mach)
    /\ target.generation <= info.generation

check_riscv64(db, info, target) ==
    /\ is_in_family(db, target, ARCH_RISCV64)
    /\ (target.name = info.name \/ target.vendor = "generic")

IsX86Arch(arch) == arch = ARCH_X86_64 \/ arch = "i686" \/ arch = "i386"

IsKnownArch(arch) ==
    \/ IsX86Arch(arch)
    \/ arch = ARCH_AARCH64
    \/ arch = ARCH_PPC64 \/ arch = ARCH_PPC64LE
    \/ arch = ARCH_RISCV64

\* the checker std::function selected by arch
checker(db, mach, plat, arch, info, target) ==
    IF IsX86Arch(arch) THEN check_x86_64(db, info, target)
    ELSE IF arch = ARCH_AARCH64 THEN check_aarch64(db, plat, info, target)
    ELSE IF arch = ARCH_PPC64 \/ arch = ARCH_PPC64LE THEN check_ppc64(db, mach, info, target)
    ELSE check_riscv64(db, info, target)

\* mutant: an empty result of a recognised architecture returned as it is
compatible_microarchitectures_no_fallback(db, mach, plat, info, arch) ==
    LET generic_target == IF exists(db, arch) THEN <<arch>> ELSE <<>>
        result == SelectSeq(all(db),
                            LAMBDA name : checker(db, mach, plat, arch, info, db[name]))
    IN  IF ~IsKnownArch(arch) THEN generic_target
        ELSE result

compatible_microarchitectures(db, mach, plat, info, arch) ==
    LET generic_target == IF exists(db, arch) THEN <<arch>> ELSE <<>>
        result == SelectSeq(all(db),
                            LAMBDA name : checker(db, mach, plat, arch, info, db[name]))
    IN  IF ~IsKnownArch(arch) THEN generic_target
        ELSE IF result = <<>> THEN generic_target
        ELSE result

\* mutant: the comparison of the ancestor counts reversed
compare_microarch_specificity_reversed(db, a, b) ==
    LET a_depth == Len(ancestors(db, db[a]))
        b_depth == Len(ancestors(db, db[b]))
    IN  IF a_depth # b_depth THEN a_depth > b_depth
        ELSE Cardinality(db[a].features) < Cardinality(db[b].features)

\* the ranking comparator: fewer ancestors first, then fewer features
compare_microarch_specificity(db, a, b) ==
    LET a_depth == Len(ancestors(db, db[a]))
        b_depth == Len(ancestors(db, db[b]))
    IN  IF a_depth # b_depth THEN a_depth < b_depth
        ELSE Cardinality(db[a].features) < Cardinality(db[b].features)

\* std::max_element: the first of the greatest elements
RECURSIVE MaxElementFrom(_, _, _)
MaxElementFrom(db, largest, rest) ==
    IF rest = <<>> THEN largest
    ELSE MaxElementFrom(db,
            IF compare_microarch_specificity(db, largest, Head(rest))
            THEN Head(rest) ELSE largest,
            Tail(rest))

\* mutant: the first element, whatever its rank
max_element_front(db, candidates) == Head(candidates)

max_element(db, candidates) == MaxElementFrom(db, Head(candidates), Tail(candidates))

nullptr == "<nullptr>"

generic_candidates(db, candidates) ==
    SelectSeq(candidates, LAMBDA c : db[c].vendor = "generic")

\* mutant: the greatest candidate of any vendor
best_generic_any_vendor(db, candidates) ==
    IF generic_candidates(db, candidates) # <<>>
    THEN max_element(db, candidates)
    ELSE nullptr

best_generic(db, candidates) ==
    IF generic_candidates(db, candidates) # <<>>
    THEN max_element(db, generic_candidates(db, candidates))
    ELSE nullptr

\* mutant: narrowed also when no candidate matches
cpu_part_stage_unconditional(db, info, candidates) ==
    IF info.cpu_part # ""
    THEN SelectSeq(candidates, LAMBDA c : db[c].cpu_part = info.cpu_part)
    ELSE candidates

\* narrowing by CPU part: only when some candidate matches
cpu_part_stage(db, info, candidates) ==
    LET cpu_part_matches == SelectSeq(candidates, LAMBDA c : db[c].cpu_part = info.cpu_part)
    IN  IF info.cpu_part # "" /\ cpu_part_matches # <<>> THEN cpu_part_matches
        ELSE candidates

\* mutant: the descendants of best_generic taken from the whole store
generic_stage_whole_store(db, best, candidates) ==
    LET filtered == SelectSeq(all(db), LAMBDA c : operator_gt(db, db[c], db[best]))
    IN  IF best # nullptr /\ filtered # <<>> THEN filtered
        ELSE candidates

\* narrowing to the candidates above best_generic: only when there is one
generic_stage(db, best, candidates) ==
    LET filtered == SelectSeq(candidates, LAMBDA c : operator_gt(db, db[c], db[best]))
    IN  IF best # nullptr /\ filtered # <<>> THEN filtered
        ELSE candidates

\* host() after detect_cpu_info() returned info and get_machine() mach
host(db, mach, plat, info) ==
    LET compatible == compatible_microarchitectures(db, mach, plat, info, mach)
        best == best_generic(db, compatible)
        candidates == generic_stage(db, best, cpu_part_stage(db, info, compatible))
    IN  IF compatible = <<>> THEN generic_microarchitecture(mach)
        ELSE IF candidates = <<>>
             THEN IF best # nullptr THEN db[best] ELSE generic_microarchitecture(mach)
        ELSE db[max_element(db, candidates)]

(***************************************************************************)
(* Bounded documents and detected signals.                                 *)
(*                                                                         *)
(* A store is what load_from_string builds from a document: one            *)
(* descriptor per name, built by the Microarchitecture constructor.        *)
(***************************************************************************)
Store(ds) == [n \in {d.name : d \in ds} |-> CHOOSE d \in ds : d.name = n]

\* a document entry with no "from", no "vendor" and no "features"
Root(name) == Microarchitecture(name, <<>>, "generic", {}, EmptyMap, 0, "")

\* features a signal may report beyond those any descriptor declares
NumExtraFeatures == 1

\* the highest POWER generation of a descriptor or a signal
MaxGeneration == 2

DescriptorFeatures == {"sse2", "avx"}

ExtraFeatureNames == <<"avx2", "avx512f", "sha", "vaes">>

SignalFeatures ==
    DescriptorFeatures \cup {ExtraFeatureNames[i] : i \in 1..NumExtraFeatures}

FeatureChoices == {{}, {"sse2"}, {"sse2", "avx"}}

DescriptorVendors == {"generic", "AuthenticAMD"}

\* the parents of x86_64_v2, zen and zen2: a chain, siblings, two children,
\* a side branch, a diamond, a second root, a parent missing from the store
X86Shapes ==
    { << <<"x86_64">>, <<"x86_64_v2">>, <<"zen">> >>,
      << <<"x86_64">>, <<"x86_64">>, <<"x86_64">> >>,
      << <<"x86_64">>, <<"x86_64_v2">>, <<"x86_64_v2">> >>,
      << <<"x86_64">>, <<"x86_64">>, <<"zen">> >>,
      << <<"x86_64">>, <<"x86_64">>, <<"zen", "x86_64_v2">> >>,
      << <<"x86_64">>, <<"x86_64", "aarch64">>, <<"zen">> >>,
      << <<"x86_64">>, <<"x86_64", "broadwell">>, <<"x86_64_v2">> >> }

X86StoresOf(vendors) ==
    { Store({ Root("x86_64"),
              Root("aarch64"),
              Microarchitecture("x86_64_v2", sh[1], v[1], f[1], EmptyMap, 0, ""),
              Microarchitecture("zen", sh[2], v[2], f[2], EmptyMap, 0, ""),
              Microarchitecture("zen2", sh[3], v[3], f[3], EmptyMap, 0, "") }) :
        sh \in X86Shapes,
        v \in vendors,
        f \in [1..3 -> FeatureChoices] }

X86Stores == X86StoresOf([1..3 -> DescriptorVendors])

\* aarch64 descriptors: parents, vendors, features and CPU parts
ArmShapes ==
    { << <<"aarch64">>, <<"armv8.1a">>, <<"m1">> >>,
      << <<"aarch64">>, <<"aarch64">>, <<"m1", "armv8.1a">> >>,
      << <<"aarch64">>, <<"armv8.1a">>, <<"armv8.1a">> >> }

ArmFeatures == {"fp", "asimd"}

ArmFeatureChoices == {{}, {"fp"}}

ArmVendors == {"generic", "Apple"}

ArmParts == { <<"", "", "">>, <<"", "0x022", "0x022">>, <<"0x022", "0x022", "0x032">> }

ArmStoresOf(vendors) ==
    { Store({ Root("x86_64"),
              Root("aarch64"),
              Microarchitecture("armv8.1a", sh[1], v[1], f[1], EmptyMap, 0, p[1]),
              Microarchitecture("m1", sh[2], v[2], f[2], EmptyMap, 0, p[2]),
              Microarchitecture("m2", sh[3], v[3], f[3], EmptyMap, 0, p[3]) }) :
        sh \in ArmShapes,
        v \in vendors,
        f \in [1..3 -> ArmFeatureChoices],
        p \in ArmParts }

ArmStores == ArmStoresOf([1..3 -> ArmVendors])

\* aarch64 stores whose root declares a feature of its own
ArmStoresWithRootFeatures ==
    { Store({ Root("x86_64"),
              Microarchitecture("aarch64", <<>>, "generic", {"fp"}, EmptyMap, 0, ""),
              Microarchitecture("armv8.1a", <<"aarch64">>, "generic", f[1], EmptyMap, 0, ""),
              Microarchitecture("m1", <<"armv8.1a">>, "Apple", f[2], EmptyMap, 0, ""),
              Microarchitecture("m2", <<"m1">>, "Apple", f[3], EmptyMap, 0, "") }) :
        f \in [1..3 -> {{"fp"}, {"fp", "asimd"}}] }

\* POWER descriptors: generations
PpcStores ==
    { Store({ Microarchitecture("ppc64le", <<>>, "generic", {}, EmptyMap, g[1], ""),
              Microarchitecture("power8le", <<"ppc64le">>, "IBM", {}, EmptyMap, g[2], ""),
              Microarchitecture("power9le", <<"power8le">>, "IBM", {}, EmptyMap, g[3], ""),
              Root("ppc64") }) :
        g \in [1..3 -> 0..MaxGeneration] }

RiscvStores ==
    { Store({ Root("riscv64"),
              Microarchitecture("u74mc", <<"riscv64">>, v, {}, EmptyMap, 0, "") }) :
        v \in {"generic", "SiFive"} }

DefaultInfo == [name |-> "", vendor |-> "", features |-> {}, generation |-> 0, cpu_part |-> ""]

\* what detect_cpu_info() can return when get_machine() is arch
DetectedInfos(arch, plat) ==
    IF IsX86Arch(arch)
    THEN { [DefaultInfo EXCEPT !.vendor = v, !.features = f] :
             v \in {"AuthenticAMD", "GenuineIntel"}, f \in SUBSET SignalFeatures }
    ELSE IF arch = ARCH_AARCH64 /\ plat = "apple"
    THEN { [DefaultInfo EXCEPT !.vendor = "Apple", !.name = n] : n \in {"", "m1"} }
    ELSE IF arch = ARCH_AARCH64
    THEN { [DefaultInfo EXCEPT !.vendor = v, !.features = f, !.cpu_part = p] :
             v \in {"ARM", "Apple"}, f \in SUBSET ArmFeatures, p \in {"", "0x022"} }
    ELSE IF arch = ARCH_PPC64 \/ arch = ARCH_PPC64LE
    THEN { [DefaultInfo EXCEPT !.generation = g] : g \in 0..MaxGeneration }
    ELSE IF arch = ARCH_RISCV64
    THEN { [DefaultInfo EXCEPT !.name = n] : n \in {"riscv64", "u74mc", "rocket"} }
    ELSE { DefaultInfo }

\* the stores host() is called on, each with its machine and its build
HostSetups ==
    (X86Stores \X {"x86_64"} \X {"linux"})
    \cup (ArmStores \X {"aarch64"} \X {"linux", "apple"})
    \cup (PpcStores \X {"ppc64le", "ppc64", "riscv64", "unknown"} \X {"linux"})
    \cup (RiscvStores \X {"riscv64", "i686", "unknown"} \X {"linux"})

\* the stores compatible_microarchitectures(info, arch) is called on: each
\* descriptor is judged on its own, so fewer vendor assignments are drawn
CompatibleSetups ==
    (X86StoresOf({<<"generic", "generic", "AuthenticAMD">>,
                  <<"generic", "AuthenticAMD", "AuthenticAMD">>,
                  <<"AuthenticAMD", "generic", "AuthenticAMD">>}) \X {"x86_64"} \X {"linux"})
    \cup (ArmStoresOf({<<"generic", "Apple", "Apple">>,
                       <<"Apple", "generic", "Apple">>}) \X {"aarch64"} \X {"linux", "apple"})
    \cup (ArmStoresWithRootFeatures \X {"aarch64"} \X {"linux"})
    \cup (PpcStores \X {"ppc64le", "ppc64", "riscv64", "unknown"} \X {"linux"})
    \cup (RiscvStores \X {"riscv64", "i686", "unknown"} \X {"linux"})

\* the arch argument: the recognised names, a name no store holds, and the
\* name of a descriptor that is no root
Archs ==
    {"x86_64", "i686", "i386", "aarch64", "ppc64le", "ppc64", "riscv64", "unknown", "zen2"}

(***************************************************************************)
(* The matcher's queries.                                                  *)
(***************************************************************************)
Idle == [op |-> "idle"]

\* the statics of archspec_c before the first call: each with its value, the
\* number of assignments made to it, and whether its content is determinate
ColdCache ==
    [s_initialized |-> FALSE,
     s_host_name |-> [value |-> "", writes |-> 0, determinate |-> TRUE],
     s_host_vendor |-> [value |-> "", writes |-> 0, determinate |-> TRUE],
     s_target_names |-> [value |-> <<>>, writes |-> 0, determinate |-> TRUE]]

\* the rest of the state once instance() has returned to a single caller: the
\* conversion tables (not read by the queries below), loaded_ set, the static
\* initialised, no other thread, the C interface not called yet
AfterConstruction ==
    /\ darwin_flags = EmptyMap
    /\ arm_vendors = EmptyMap
    /\ loaded = TRUE
    /\ static_guard = "done"
    /\ threads = <<>>
    /\ cache = ColdCache

InitHost ==
    /\ \E setup \in HostSetups :
        /\ targets = setup[1]
        /\ machine = setup[2]
        /\ platform = setup[3]
    /\ feature_aliases = EmptyMap
    /\ family_features = EmptyMap
    /\ call = Idle
    /\ AfterConstruction

\* host(): detect_cpu_info(), then the selection; the record keeps the locals
\* of the call: the compatible set, best_generic, and the candidates after
\* the narrowing by CPU part and after the narrowing above best_generic
Host ==
    /\ call = Idle
    /\ \E info \in DetectedInfos(machine, platform) :
        LET compatible ==
                compatible_microarchitectures(targets, machine, platform, info, machine)
            best == best_generic(targets, compatible)
            after_cpu_part == cpu_part_stage(targets, info, compatible)
        IN  call' = [op |-> "host", info |-> info, arch |-> machine,
                     compatible |-> compatible,
                     best_generic |-> best,
                     after_cpu_part |-> after_cpu_part,
                     candidates |-> generic_stage(targets, best, after_cpu_part),
                     result |-> host(targets, machine, platform, info)]
    /\ UNCHANGED <<store, machine, platform, singleton>>

\* compatible_microarchitectures(info, arch), as the tests call it
CompatibleMicroarchitectures ==
    /\ call = Idle
    /\ \E arch \in Archs : \E info \in DetectedInfos(arch, platform) :
        call' = [op |-> "compatible_microarchitectures", info |-> info, arch |-> arch,
                 result |-> compatible_microarchitectures(targets, machine, platform, info, arch)]
    /\ UNCHANGED <<store, machine, platform, singleton>>

\* the caller takes the result
Return ==
    /\ call # Idle
    /\ call' = Idle
    /\ UNCHANGED <<store, machine, platform, singleton>>

NextHost == Host \/ Return

SpecHost == InitHost /\ [][NextHost]_vars

InitCompatible ==
    /\ \E setup \in CompatibleSetups :
        /\ targets = setup[1]
        /\ machine = setup[2]
        /\ platform = setup[3]
    /\ feature_aliases = EmptyMap
    /\ family_features = EmptyMap
    /\ call = Idle
    /\ AfterConstruction

NextCompatible == CompatibleMicroarchitectures \/ Return

SpecCompatible == InitCompatible /\ [][NextCompatible]_vars

(***************************************************************************)
(* The entity's queries: the comparisons and has_feature.                  *)
(***************************************************************************)
\* the x86 shapes, and one whose first root is not the x86 root
EntityShapes ==
    X86Shapes \cup { << <<"x86_64">>, <<"aarch64", "x86_64">>, <<"zen">> >> }

EntityStores ==
    { Store({ Root("x86_64"),
              Root("aarch64"),
              Microarchitecture("x86_64_v2", sh[1], "generic", f[1], EmptyMap, 0, ""),
              Microarchitecture("zen", sh[2], "AuthenticAMD", f[2], EmptyMap, 0, ""),
              Microarchitecture("zen2", sh[3], "AuthenticAMD", f[3], EmptyMap, 0, "") }) :
        sh \in EntityShapes,
        f \in [1..3 -> FeatureChoices] }

\* the "feature_aliases" object of the document
AliasTables ==
    { EmptyMap,
      [k \in {"simd"} |-> {"sse2", "avx"}],
      [k \in {"simd", "sse2"} |-> IF k = "simd" THEN {"avx", "avx2"} ELSE {"avx"}] }

\* the "family_features" object of the document
FamilyTables ==
    { EmptyMap,
      [k \in {"fp"} |-> {"aarch64"}],
      [k \in {"fp", "simd"} |-> IF k = "fp" THEN {"x86_64"} ELSE {"aarch64", "zen"}] }

\* the names has_feature is asked about; "neon" is in no descriptor and no table
QueriedFeatures == {"sse2", "avx", "simd", "fp", "neon"}

\* the stored descriptors and one that is not stored
Operands == {targets[n] : n \in DOMAIN targets} \cup {generic_microarchitecture("unknown")}

InitEntity ==
    /\ targets \in EntityStores
    /\ feature_aliases \in AliasTables
    /\ family_features \in FamilyTables
    /\ machine = "x86_64"
    /\ platform = "linux"
    /\ call = Idle
    /\ AfterConstruction

\* the six comparison operators on a pair of descriptors
Compare ==
    /\ call = Idle
    /\ \E a \in Operands : \E b \in Operands :
        call' = [op |-> "compare", a |-> a, b |-> b,
                 eq |-> operator_eq(a, b), ne |-> operator_ne(a, b),
                 lt |-> operator_lt(targets, a, b), le |-> operator_le(targets, a, b),
                 gt |-> operator_gt(targets, a, b), ge |-> operator_ge(targets, a, b)]
    /\ UNCHANGED <<store, machine, platform, singleton>>

HasFeature ==
    /\ call = Idle
    /\ \E d \in Operands : \E feature \in QueriedFeatures :
        call' = [op |-> "has_feature", d |-> d, feature |-> feature,
                 result |-> has_feature(targets, feature_aliases, family_features,
                                        d, feature)]
    /\ UNCHANGED <<store, machine, platform, singleton>>

NextEntity == Compare \/ HasFeature \/ Return

SpecEntity == InitEntity /\ [][NextEntity]_vars

(***************************************************************************)
(* The entity's lineage queries: ancestors(), family() and generic().      *)
(***************************************************************************)
\* further parents of x86_64_v2, zen and zen2: a parent chain that reaches no
\* stored root, a direct parent that is also an ancestor of another direct
\* parent (listed after it, listed before it), a "from" list naming a parent
\* twice
LineageShapes ==
    EntityShapes \cup
    { << <<"x86_64">>, <<"broadwell">>, <<"zen">> >>,
      << <<"x86_64">>, <<"x86_64_v2">>, <<"x86_64_v2", "x86_64">> >>,
      << <<"x86_64">>, <<"x86_64_v2">>, <<"x86_64", "x86_64_v2">> >>,
      << <<"x86_64">>, <<"x86_64">>, <<"x86_64", "x86_64">> >> }

RootVendors == {"generic", "GenuineIntel"}

LineageStores ==
    { Store({ Microarchitecture("x86_64", <<>>, rv, {}, EmptyMap, 0, ""),
              Root("aarch64"),
              Microarchitecture("x86_64_v2", sh[1], v[1], {}, EmptyMap, 0, ""),
              Microarchitecture("zen", sh[2], v[2], {}, EmptyMap, 0, ""),
              Microarchitecture("zen2", sh[3], v[3], {}, EmptyMap, 0, "") }) :
        sh \in LineageShapes,
        v \in [1..3 -> DescriptorVendors],
        rv \in RootVendors }

InitLineage ==
    /\ targets \in LineageStores
    /\ feature_aliases = EmptyMap
    /\ family_features = EmptyMap
    /\ machine = "x86_64"
    /\ platform = "linux"
    /\ call = Idle
    /\ AfterConstruction

\* d.ancestors(), in a library built from either copy of microarchitecture.cpp
Ancestors ==
    /\ call = Idle
    /\ \E d \in Operands :
       \E result \in {ancestors(targets, d), ancestors_interleaved(targets, d)} :
        call' = [op |-> "ancestors", d |-> d, result |-> result]
    /\ UNCHANGED <<store, machine, platform, singleton>>

Family ==
    /\ call = Idle
    /\ \E d \in Operands :
        call' = [op |-> "family", d |-> d, result |-> family(targets, d)]
    /\ UNCHANGED <<store, machine, platform, singleton>>

Generic ==
    /\ call = Idle
    /\ \E d \in Operands :
        call' = [op |-> "generic", d |-> d, result |-> generic(targets, d)]
    /\ UNCHANGED <<store, machine, platform, singleton>>

NextLineage == Ancestors \/ Family \/ Generic \/ Return

SpecLineage == InitLineage /\ [][NextLineage]_vars

(***************************************************************************)
(* optimization_flags over stores whose descriptors carry compiler tables. *)
(***************************************************************************)
Gcc4Up ==
    [versions |-> <<"4", ":">>, name |-> "",
     flags |-> <<"-march=", "{", "name", "}", " -mtune=", "{", "name", "}">>,
     warnings |-> ""]

Gcc5To9Renamed ==
    [versions |-> <<"5", ":", "9">>, name |-> "znver1",
     flags |-> <<"-march=", "{", "name", "}">>, warnings |-> ""]

GccTo5NoFlags ==
    [versions |-> <<":", "5">>, name |-> "", flags |-> <<>>, warnings |-> ""]

Gcc10Unclosed ==
    [versions |-> <<"1", "0", ":">>, name |-> "",
     flags |-> <<"-mcpu=", "{", "name">>, warnings |-> ""]

\* an entry for every version, as the family roots carry
GccAnyGeneric ==
    [versions |-> <<":">>, name |-> "x86-64",
     flags |-> <<"-march=", "{", "name", "}", " -mtune=generic">>, warnings |-> ""]

\* the "compilers" object of a descriptor
CompilerTables ==
    { EmptyMap,
      [c \in {"gcc"} |-> <<Gcc4Up>>],
      [c \in {"gcc"} |-> <<Gcc5To9Renamed, Gcc4Up>>],
      [c \in {"gcc", "clang"} |->
          IF c = "gcc" THEN <<GccTo5NoFlags, Gcc10Unclosed>> ELSE <<Gcc4Up>>],
      [c \in {"gcc", "clang"} |-> IF c = "gcc" THEN <<Gcc10Unclosed>> ELSE <<>>] }

RootCompilerTables ==
    { EmptyMap, [c \in {"gcc"} |-> <<Gcc4Up>>], [c \in {"gcc"} |-> <<GccAnyGeneric>>] }

FlagStores ==
    { Store({ Microarchitecture("x86_64", <<>>, "generic", {}, r, 0, ""),
              Root("aarch64"),
              Microarchitecture("x86_64_v2", sh[1], "generic", {}, t[1], 0, ""),
              Microarchitecture("zen", sh[2], "AuthenticAMD", {}, t[2], 0, ""),
              Microarchitecture("zen2", sh[3], "AuthenticAMD", {}, t[3], 0, "") }) :
        sh \in X86Shapes,
        r \in RootCompilerTables,
        t \in [1..3 -> CompilerTables] }

QueriedCompilers == {"gcc", "clang"}

QueriedVersions == { <<"3">>, <<"5">>, <<"1", "0", ".", "0">> }

InitFlags ==
    /\ targets \in FlagStores
    /\ feature_aliases = EmptyMap
    /\ family_features = EmptyMap
    /\ machine = "x86_64"
    /\ platform = "linux"
    /\ call = Idle
    /\ AfterConstruction

OptimizationFlags ==
    /\ call = Idle
    /\ \E n \in DOMAIN targets : \E compiler \in QueriedCompilers :
       \E version \in QueriedVersions :
        call' = [op |-> "optimization_flags", d |-> targets[n],
                 compiler |-> compiler, version |-> version,
                 result |-> optimization_flags(targets, targets[n], compiler, version)]
    /\ UNCHANGED <<store, machine, platform, singleton>>

(***************************************************************************)
(* The C interface (archspec_c).  A char* is NULL or points to a string    *)
(* (allocations succeed).                                                  *)
(***************************************************************************)
NULL == [null |-> TRUE]

to_c_string(str) == [null |-> FALSE, str |-> str]

\* the version passed on is the empty string
archspec_get_flags(db, name, compiler) ==
    IF name = NULL \/ compiler = NULL THEN NULL
    ELSE IF ~exists(db, name.str) THEN NULL
    ELSE LET flags == optimization_flags(db, db[name.str], compiler.str, <<>>)
         IN  IF flags = <<>> THEN NULL ELSE to_c_string(flags)

ArchspecGetFlags ==
    /\ call = Idle
    /\ \E name \in {NULL} \cup {to_c_string(n) : n \in DOMAIN targets \cup {"k10"}} :
       \E compiler \in {NULL} \cup {to_c_string(c) : c \in QueriedCompilers} :
        call' = [op |-> "archspec_get_flags", name |-> name, compiler |-> compiler,
                 result |-> archspec_get_flags(targets, name, compiler)]
    /\ UNCHANGED <<store, machine, platform, singleton>>

NextFlags == OptimizationFlags \/ ArchspecGetFlags \/ Return

SpecFlags == InitFlags /\ [][NextFlags]_vars

(***************************************************************************)
(* satisfies_version on constraints and versions built from numerals.      *)
(***************************************************************************)
MaxComponents == 2

\* 4294967297 is 2^32 + 1
Numerals ==
    { <<"0">>, <<"1">>, <<"1", "0">>,
      <<"4", "2", "9", "4", "9", "6", "7", "2", "9", "7">> }

RECURSIVE JoinWithDots(_)
JoinWithDots(components) ==
    IF Len(components) = 1 THEN components[1]
    ELSE components[1] \o <<".">> \o JoinWithDots(Tail(components))

VersionStrings ==
    { JoinWithDots(t) : t \in UNION {[1..n -> Numerals] : n \in 1..MaxComponents} }

\* strings that are not dot-separated numerals
OtherStrings ==
    { <<>>, <<"1", ".", "x">>, <<"-", "1">>, <<"1", ".", ".", "1">>, <<" ", "1", "0", "r">> }

ConstraintStrings ==
    { lo \o <<":">> \o hi : lo \in VersionStrings \cup {<<>>},
                            hi \in VersionStrings \cup {<<>>} }
    \cup VersionStrings

InitVersion ==
    /\ targets = Store({Root("x86_64")})
    /\ feature_aliases = EmptyMap
    /\ family_features = EmptyMap
    /\ machine = "x86_64"
    /\ platform = "linux"
    /\ call = Idle
    /\ AfterConstruction

SatisfiesVersion ==
    /\ call = Idle
    /\ \E constraint \in ConstraintStrings : \E version \in VersionStrings \cup OtherStrings :
        call' = [op |-> "satisfies_version", constraint |-> constraint,
                 version |-> version,
                 result |-> satisfies_version(constraint, version)]
    /\ UNCHANGED <<store, machine, platform, singleton>>

NextVersion == SatisfiesVersion \/ Return

SpecVersion == InitVersion /\ [][NextVersion]_vars

(***************************************************************************)
(* The translation to the compiler toolchain's names (llvm_compat.cpp).    *)
(* CPU names are taken apart here (prefixes, dashes, letter case), so in   *)
(* this part a name is a sequence of one-character strings; features are   *)
(* only compared and stay strings.  A table is the set of its pairs.       *)
(***************************************************************************)
aarch64_feature_map ==
    { <<"asimd", "neon">>, <<"asimddp", "dotprod">>, <<"asimdfhm", "fp16fml">>,
      <<"asimdhp", "fullfp16">>, <<"asimdrdm", "rdm">>, <<"atomics", "lse">>,
      <<"crc32", "crc">>, <<"fcma", "complxnum">>, <<"fp", "fp-armv8">>,
      <<"fphp", "fullfp16">>, <<"jscvt", "jsconv">>, <<"lrcpc", "rcpc">>,
      <<"ilrcpc", "rcpc-immo">>, <<"paca", "pauth">>, <<"pacg", "pauth">>, <<"rng", "rand">> }

aarch64_filter_out ==
    { "cpuid", "dcpodp", "dcpop", "dgh", "evtstrm", "flagm2", "frint", "uscat", "sha1",
      "sha512", "pmull", "svebf16", "svei8mm" }

x86_64_feature_map ==
    { <<"sse4_1", "sse4.1">>, <<"sse4_2", "sse4.2">>, <<"avx512_vnni", "avx512vnni">>,
      <<"avx512_bf16", "avx512bf16">>, <<"avx512_vbmi", "avx512vbmi">>,
      <<"avx512_vbmi2", "avx512vbmi2">>, <<"avx512_ifma", "avx512ifma">>,
      <<"avx512_vpopcntdq", "avx512vpopcntdq">>,
      <<"avx512_vp2intersect", "avx512vp2intersect">>, <<"avx512_bitalg", "avx512bitalg">>,
      <<"avx_vnni", "avxvnni">>, <<"lahf_lm", "sahf">>, <<"pclmulqdq", "pclmul">>,
      <<"rdrand", "rdrnd">>, <<"abm", "lzcnt">>, <<"bmi1", "bmi">>, <<"sha_ni", "sha">>,
      <<"amx_bf16", "amx-bf16">>, <<"amx_int8", "amx-int8">>, <<"amx_tile", "amx-tile">> }

x86_64_filter_out ==
    { "3dnow", "3dnowext", "avx512er", "avx512pf" }

riscv_feature_map ==
    { <<"m", "m">>, <<"a", "a">>, <<"f", "f">>, <<"d", "d">>, <<"c", "c">>, <<"v", "v">>,
      <<"zba", "zba">>, <<"zbb", "zbb">>, <<"zbc", "zbc">>, <<"zbs", "zbs">>, <<"zfh", "zfh">>,
      <<"zfhmin", "zfhmin">>, <<"zvl128b", "zvl128b">>, <<"zvl256b", "zvl256b">>,
      <<"zvl512b", "zvl512b">>, <<"zvl1024b", "zvl1024b">> }

riscv_filter_out ==
    {}

aarch64_cpu_map ==
    { <<<<"m", "1">>, <<"a", "p", "p", "l", "e", "-", "m", "1">>>>,
      <<<<"m", "1", "_", "p", "r", "o">>, <<"a", "p", "p", "l", "e", "-", "m", "1">>>>,
      <<<<"m", "1", "_", "m", "a", "x">>, <<"a", "p", "p", "l", "e", "-", "m", "1">>>>,
      <<<<"m", "1", "_", "u", "l", "t", "r", "a">>, <<"a", "p", "p", "l", "e", "-", "m", "1">>>>,
      <<<<"m", "2">>, <<"a", "p", "p", "l", "e", "-", "m", "2">>>>,
      <<<<"m", "2", "_", "p", "r", "o">>, <<"a", "p", "p", "l", "e", "-", "m", "2">>>>,
      <<<<"m", "2", "_", "m", "a", "x">>, <<"a", "p", "p", "l", "e", "-", "m", "2">>>>,
      <<<<"m", "2", "_", "u", "l", "t", "r", "a">>, <<"a", "p", "p", "l", "e", "-", "m", "2">>>>,
      <<<<"m", "3">>, <<"a", "p", "p", "l", "e", "-", "m", "3">>>>,
      <<<<"m", "3", "_", "p", "r", "o">>, <<"a", "p", "p", "l", "e", "-", "m", "3">>>>,
      <<<<"m", "3", "_", "m", "a", "x">>, <<"a", "p", "p", "l", "e", "-", "m", "3">>>>,
      <<<<"m", "3", "_", "u", "l", "t", "r", "a">>, <<"a", "p", "p", "l", "e", "-", "m", "3">>>>,
      <<<<"m", "4">>, <<"a", "p", "p", "l", "e", "-", "m", "4">>>>,
      <<<<"m", "4", "_", "p", "r", "o">>, <<"a", "p", "p", "l", "e", "-", "m", "4">>>>,
      <<<<"m", "4", "_", "m", "a", "x">>, <<"a", "p", "p", "l", "e", "-", "m", "4">>>>,
      <<<<"a", "7">>, <<"a", "p", "p", "l", "e", "-", "a", "7">>>>,
      <<<<"a", "8">>, <<"a", "p", "p", "l", "e", "-", "a", "8">>>>,
      <<<<"a", "9">>, <<"a", "p", "p", "l", "e", "-", "a", "9">>>>,
      <<<<"a", "1", "0">>, <<"a", "p", "p", "l", "e", "-", "a", "1", "0">>>>,
      <<<<"a", "1", "1">>, <<"a", "p", "p", "l", "e", "-", "a", "1", "1">>>>,
      <<<<"a", "1", "2">>, <<"a", "p", "p", "l", "e", "-", "a", "1", "2">>>>,
      <<<<"a", "1", "3">>, <<"a", "p", "p", "l", "e", "-", "a", "1", "3">>>>,
      <<<<"a", "1", "4">>, <<"a", "p", "p", "l", "e", "-", "a", "1", "4">>>>,
      <<<<"a", "1", "5">>, <<"a", "p", "p", "l", "e", "-", "a", "1", "5">>>>,
      <<<<"a", "1", "6">>, <<"a", "p", "p", "l", "e", "-", "a", "1", "6">>>>,
      <<<<"a", "1", "7">>, <<"a", "p", "p", "l", "e", "-", "a", "1", "7">>>>,
      <<<<"t", "h", "u", "n", "d", "e", "r", "x", "2">>, <<"t", "h", "u", "n", "d", "e", "r", "x", "2", "t", "9", "9">>>>,
      <<<<"t", "h", "u", "n", "d", "e", "r", "x", "3">>, <<"t", "h", "u", "n", "d", "e", "r", "x", "3", "t", "1", "1", "0">>>> }

x86_64_cpu_map ==
    { <<<<"z", "e", "n">>, <<"z", "n", "v", "e", "r", "1">>>>,
      <<<<"z", "e", "n", "2">>, <<"z", "n", "v", "e", "r", "2">>>>,
      <<<<"z", "e", "n", "3">>, <<"z", "n", "v", "e", "r", "3">>>>,
      <<<<"z", "e", "n", "4">>, <<"z", "n", "v", "e", "r", "4">>>>,
      <<<<"i", "c", "e", "l", "a", "k", "e">>, <<"i", "c", "e", "l", "a", "k", "e", "-", "c", "l", "i", "e", "n", "t">>>>,
      <<<<"i", "c", "e", "l", "a", "k", "e", "_", "s", "e", "r", "v", "e", "r">>, <<"i", "c", "e", "l", "a", "k", "e", "-", "s", "e", "r", "v", "e", "r">>>>,
      <<<<"s", "a", "p", "p", "h", "i", "r", "e", "r", "a", "p", "i", "d", "s">>, <<"s", "a", "p", "p", "h", "i", "r", "e", "r", "a", "p", "i", "d", "s">>>>,
      <<<<"a", "l", "d", "e", "r", "l", "a", "k", "e">>, <<"a", "l", "d", "e", "r", "l", "a", "k", "e">>>>,
      <<<<"m", "e", "t", "e", "o", "r", "l", "a", "k", "e">>, <<"m", "e", "t", "e", "o", "r", "l", "a", "k", "e">>>> }

aarch64_cpu_reverse_map ==
    { <<<<"a", "p", "p", "l", "e", "-", "m", "1">>, <<"m", "1">>>>,
      <<<<"a", "p", "p", "l", "e", "-", "m", "2">>, <<"m", "2">>>>,
      <<<<"a", "p", "p", "l", "e", "-", "m", "3">>, <<"m", "3">>>>,
      <<<<"a", "p", "p", "l", "e", "-", "m", "4">>, <<"m", "4">>>>,
      <<<<"a", "p", "p", "l", "e", "-", "a", "7">>, <<"a", "7">>>>,
      <<<<"a", "p", "p", "l", "e", "-", "a", "8">>, <<"a", "8">>>>,
      <<<<"a", "p", "p", "l", "e", "-", "a", "9">>, <<"a", "9">>>>,
      <<<<"a", "p", "p", "l", "e", "-", "a", "1", "0">>, <<"a", "1", "0">>>>,
      <<<<"a", "p", "p", "l", "e", "-", "a", "1", "1">>, <<"a", "1", "1">>>>,
      <<<<"a", "p", "p", "l", "e", "-", "a", "1", "2">>, <<"a", "1", "2">>>>,
      <<<<"a", "p", "p", "l", "e", "-", "a", "1", "3">>, <<"a", "1", "3">>>>,
      <<<<"a", "p", "p", "l", "e", "-", "a", "1", "4">>, <<"a", "1", "4">>>>,
      <<<<"a", "p", "p", "l", "e", "-", "a", "1", "5">>, <<"a", "1", "5">>>>,
      <<<<"a", "p", "p", "l", "e", "-", "a", "1", "6">>, <<"a", "1", "6">>>>,
      <<<<"a", "p", "p", "l", "e", "-", "a", "1", "7">>, <<"a", "1", "7">>>>,
      <<<<"t", "h", "u", "n", "d", "e", "r", "x", "2", "t", "9", "9">>, <<"t", "h", "u", "n", "d", "e", "r", "x", "2">>>>,
      <<<<"t", "h", "u", "n", "d", "e", "r", "x", "3", "t", "1", "1", "0">>, <<"t", "h", "u", "n", "d", "e", "r", "x", "2">>>>,
      <<<<"c", "o", "r", "t", "e", "x", "-", "a", "3", "5">>, <<"a", "a", "r", "c", "h", "6", "4">>>>,
      <<<<"c", "o", "r", "t", "e", "x", "-", "a", "5", "3">>, <<"a", "a", "r", "c", "h", "6", "4">>>>,
      <<<<"c", "o", "r", "t", "e", "x", "-", "a", "5", "5">>, <<"a", "a", "r", "c", "h", "6", "4">>>>,
      <<<<"c", "o", "r", "t", "e", "x", "-", "a", "5", "7">>, <<"a", "a", "r", "c", "h", "6", "4">>>>,
      <<<<"c", "o", "r", "t", "e", "x", "-", "a", "6", "5">>, <<"a", "a", "r", "c", "h", "6", "4">>>>,
      <<<<"c", "o", "r", "t", "e", "x", "-", "a", "7", "2">>, <<"c", "o", "r", "t", "e", "x", "_", "a", "7", "2">>>>,
      <<<<"c", "o", "r", "t", "e", "x", "-", "a", "7", "3">>, <<"c", "o", "r", "t", "e", "x", "_", "a", "7", "2">>>>,
      <<<<"c", "o", "r", "t", "e", "x", "-", "a", "7", "5">>, <<"c", "o", "r", "t", "e", "x", "_", "a", "7", "2">>>>,
      <<<<"c", "o", "r", "t", "e", "x", "-", "a", "7", "6">>, <<"c", "o", "r", "t", "e", "x", "_", "a", "7", "2">>>>,
      <<<<"c", "o", "r", "t", "e", "x", "-", "a", "7", "7">>, <<"c", "o", "r", "t", "e", "x", "_", "a", "7", "2">>>>,
      <<<<"c", "o", "r", "t", "e", "x", "-", "a", "7", "8">>, <<"c", "o", "r", "t", "e", "x", "_", "a", "7", "2">>>>,
      <<<<"c", "o", "r", "t", "e", "x", "-", "a", "7", "1", "0">>, <<"c", "o", "r", "t", "e", "x", "_", "a", "7", "2">>>>,
      <<<<"c", "o", "r", "t", "e", "x", "-", "x", "1">>, <<"c", "o", "r", "t", "e", "x", "_", "a", "7", "2">>>>,
      <<<<"c", "o", "r", "t", "e", "x", "-", "x", "2">>, <<"c", "o", "r", "t", "e", "x", "_", "a", "7", "2">>>>,
      <<<<"c", "o", "r", "t", "e", "x", "-", "x", "3">>, <<"c", "o", "r", "t", "e", "x", "_", "a", "7", "2">>>>,
      <<<<"n", "e", "o", "v", "e", "r", "s", "e", "-", "n", "1">>, <<"n", "e", "o", "v", "e", "r", "s", "e", "_", "n", "1">>>>,
      <<<<"n", "e", "o", "v", "e", "r", "s", "e", "-", "n", "2">>, <<"n", "e", "o", "v", "e", "r", "s", "e", "_", "n", "2">>>>,
      <<<<"n", "e", "o", "v", "e", "r", "s", "e", "-", "v", "1">>, <<"n", "e", "o", "v", "e", "r", "s", "e", "_", "v", "1">>>>,
      <<<<"n", "e", "o", "v", "e", "r", "s", "e", "-", "v", "2">>, <<"n", "e", "o", "v", "e", "r", "s", "e", "_", "v", "2">>>>,
      <<<<"c", "a", "r", "m", "e", "l">>, <<"a", "a", "r", "c", "h", "6", "4">>>>,
      <<<<"a", "m", "p", "e", "r", "e", "1">>, <<"n", "e", "o", "v", "e", "r", "s", "e", "_", "n", "1">>>>,
      <<<<"a", "m", "p", "e", "r", "e", "1", "a">>, <<"n", "e", "o", "v", "e", "r", "s", "e", "_", "n", "1">>>> }

x86_64_cpu_reverse_map ==
    { <<<<"z", "n", "v", "e", "r", "1">>, <<"z", "e", "n">>>>,
      <<<<"z", "n", "v", "e", "r", "2">>, <<"z", "e", "n", "2">>>>,
      <<<<"z", "n", "v", "e", "r", "3">>, <<"z", "e", "n", "3">>>>,
      <<<<"z", "n", "v", "e", "r", "4">>, <<"z", "e", "n", "4">>>>,
      <<<<"i", "c", "e", "l", "a", "k", "e", "-", "c", "l", "i", "e", "n", "t">>, <<"i", "c", "e", "l", "a", "k", "e">>>>,
      <<<<"i", "c", "e", "l", "a", "k", "e", "-", "s", "e", "r", "v", "e", "r">>, <<"i", "c", "e", "l", "a", "k", "e", "_", "s", "e", "r", "v", "e", "r">>>>,
      <<<<"s", "k", "y", "l", "a", "k", "e", "-", "a", "v", "x", "5", "1", "2">>, <<"s", "k", "y", "l", "a", "k", "e", "_", "a", "v", "x", "5", "1", "2">>>>,
      <<<<"c", "a", "s", "c", "a", "d", "e", "l", "a", "k", "e">>, <<"c", "a", "s", "c", "a", "d", "e", "l", "a", "k", "e">>>>,
      <<<<"c", "o", "o", "p", "e", "r", "l", "a", "k", "e">>, <<"c", "o", "o", "p", "e", "r", "l", "a", "k", "e">>>> }

\* the string literals the functions below compare names with
Spelled ==
    [ aarch64 |-> <<"a", "a", "r", "c", "h", "6", "4">>,
      x86_64 |-> <<"x", "8", "6", "_", "6", "4">>,
      x86 |-> <<"x", "8", "6">>,
      riscv64 |-> <<"r", "i", "s", "c", "v", "6", "4">>,
      riscv32 |-> <<"r", "i", "s", "c", "v", "3", "2">>,
      apple_prefix |-> <<"a", "p", "p", "l", "e", "-">>,
      cortex_prefix |-> <<"c", "o", "r", "t", "e", "x", "-">>,
      neoverse_prefix |-> <<"n", "e", "o", "v", "e", "r", "s", "e", "-">>,
      native |-> <<"n", "a", "t", "i", "v", "e">>,
      generic |-> <<"g", "e", "n", "e", "r", "i", "c">> ]

\* unordered_map::find: whether the key is there, and its value
HasKey(map, key) == \E pair \in map : pair[1] = key

At(map, key) == (CHOOSE pair \in map : pair[1] = key)[2]

\* mutant: the filter-out sets not consulted
map_feature_to_llvm_unfiltered(arch_family, feature) ==
    IF arch_family = Spelled.aarch64 /\ HasKey(aarch64_feature_map, feature)
    THEN At(aarch64_feature_map, feature)
    ELSE IF arch_family \in {Spelled.x86_64, Spelled.x86} /\ HasKey(x86_64_feature_map, feature)
    THEN At(x86_64_feature_map, feature)
    ELSE IF /\ arch_family \in {Spelled.riscv64, Spelled.riscv32}
            /\ HasKey(riscv_feature_map, feature)
    THEN At(riscv_feature_map, feature)
    ELSE feature

map_feature_to_llvm(arch_family, feature) ==
    IF arch_family = Spelled.aarch64
    THEN IF feature \in aarch64_filter_out THEN ""
         ELSE IF HasKey(aarch64_feature_map, feature) THEN At(aarch64_feature_map, feature)
         ELSE feature
    ELSE IF arch_family = Spelled.x86_64 \/ arch_family = Spelled.x86
    THEN IF feature \in x86_64_filter_out THEN ""
         ELSE IF HasKey(x86_64_feature_map, feature) THEN At(x86_64_feature_map, feature)
         ELSE feature
    ELSE IF arch_family = Spelled.riscv64 \/ arch_family = Spelled.riscv32
    THEN IF feature \in riscv_filter_out THEN ""
         ELSE IF HasKey(riscv_feature_map, feature) THEN At(riscv_feature_map, feature)
         ELSE feature
    ELSE feature

get_llvm_features(db, uarch) ==
    {map_feature_to_llvm(family(db, uarch), feat) : feat \in uarch.features} \ {""}

\* std::set<std::string> iterates in ascending order: the feature names the
\* model uses, in that order
FeatureOrder ==
    <<"3dnow", "asimdhp", "avx2", "cpuid", "fp", "fp-armv8", "fphp", "fullfp16", "neon",
      "sha3", "sse3", "sse4.1", "sse4_1", "ssse3">>

\* "+f1,+f2,...": the string as the sequence of its pieces
RECURSIVE JoinFeatures(_, _)
JoinFeatures(feats, result) ==
    IF feats = <<>> THEN result
    ELSE JoinFeatures(Tail(feats),
                      (IF result = <<>> THEN result ELSE Append(result, ","))
                        \o <<"+", Head(feats)>>)

get_llvm_features_string(db, uarch) ==
    JoinFeatures(SelectSeq(FeatureOrder, LAMBDA f : f \in get_llvm_features(db, uarch)), <<>>)

get_llvm_cpu_name(db, uarch) ==
    LET name == uarch.name
        fam == family(db, uarch)
        vendor == uarch.vendor
    IN  IF fam = Spelled.aarch64
        THEN IF (vendor = "Apple" \/ vendor = "apple") /\ HasKey(aarch64_cpu_map, name)
             THEN At(aarch64_cpu_map, name)
             ELSE IF /\ (vendor = "Apple" \/ vendor = "apple")
                     /\ name # <<>> /\ (name[1] = "m" \/ name[1] = "a")
             THEN Spelled.apple_prefix \o name
             ELSE IF HasKey(aarch64_cpu_map, name) THEN At(aarch64_cpu_map, name)
             ELSE name
        ELSE IF (fam = Spelled.x86_64 \/ fam = Spelled.x86) /\ HasKey(x86_64_cpu_map, name)
        THEN At(x86_64_cpu_map, name)
        ELSE name

\* name_str.substr(0, n) == prefix, name_str.find(prefix) == 0
StartsWith(s, prefix) == Len(s) >= Len(prefix) /\ SubSeq(s, 1, Len(prefix)) = prefix

\* for (auto& c : result) if (c == '-') c = '_';
ReplaceDashes(s) == [i \in DOMAIN s |-> IF s[i] = "-" THEN "_" ELSE s[i]]

\* mutant: the reverse tables not consulted
normalize_cpu_name_rules_only(arch_family, llvm_name) ==
    IF arch_family = Spelled.aarch64
    THEN IF StartsWith(llvm_name, Spelled.apple_prefix)
         THEN SubSeq(llvm_name, Len(Spelled.apple_prefix) + 1, Len(llvm_name))
         ELSE IF \/ StartsWith(llvm_name, Spelled.cortex_prefix)
                 \/ StartsWith(llvm_name, Spelled.neoverse_prefix)
         THEN ReplaceDashes(llvm_name)
         ELSE llvm_name
    ELSE IF arch_family = Spelled.x86_64 \/ arch_family = Spelled.x86
    THEN ReplaceDashes(llvm_name)
    ELSE llvm_name

normalize_cpu_name(arch_family, llvm_name) ==
    IF arch_family = Spelled.aarch64
    THEN IF HasKey(aarch64_cpu_reverse_map, llvm_name)
         THEN At(aarch64_cpu_reverse_map, llvm_name)
         ELSE IF StartsWith(llvm_name, Spelled.apple_prefix)
         THEN SubSeq(llvm_name, Len(Spelled.apple_prefix) + 1, Len(llvm_name))
         ELSE IF \/ StartsWith(llvm_name, Spelled.cortex_prefix)
                 \/ StartsWith(llvm_name, Spelled.neoverse_prefix)
         THEN ReplaceDashes(llvm_name)
         ELSE llvm_name
    ELSE IF arch_family = Spelled.x86_64 \/ arch_family = Spelled.x86
    THEN IF HasKey(x86_64_cpu_reverse_map, llvm_name)
         THEN At(x86_64_cpu_reverse_map, llvm_name)
         ELSE ReplaceDashes(llvm_name)
    ELSE llvm_name

\* std::tolower in the "C" locale, character by character
tolower(s) ==
    LET upper == <<"A", "B", "C", "D", "E", "F", "G", "H", "I", "J", "K", "L", "M",
                   "N", "O", "P", "Q", "R", "S", "T", "U", "V", "W", "X", "Y", "Z">>
        lower == <<"a", "b", "c", "d", "e", "f", "g", "h", "i", "j", "k", "l", "m",
                   "n", "o", "p", "q", "r", "s", "t", "u", "v", "w", "x", "y", "z">>
    IN  [i \in DOMAIN s |->
            IF Contains(upper, s[i])
            THEN lower[CHOOSE k \in DOMAIN upper : upper[k] = s[i]]
            ELSE s[i]]

\* mutant: the normalized name not tried
get_llvm_features_for_cpu_no_normalize(db, cpu_name, arch_family) ==
    IF cpu_name = Spelled.native \/ cpu_name = Spelled.generic THEN <<>>
    ELSE IF exists(db, cpu_name) THEN get_llvm_features_string(db, db[cpu_name])
    ELSE IF tolower(cpu_name) # cpu_name /\ exists(db, tolower(cpu_name))
    THEN get_llvm_features_string(db, db[tolower(cpu_name)])
    ELSE <<>>

get_llvm_features_for_cpu(db, cpu_name, arch_family) ==
    LET normalized == normalize_cpu_name(arch_family, cpu_name)
        lower == tolower(cpu_name)
    IN  IF cpu_name = Spelled.native \/ cpu_name = Spelled.generic THEN <<>>
        ELSE IF exists(db, cpu_name) THEN get_llvm_features_string(db, db[cpu_name])
        ELSE IF normalized # cpu_name /\ exists(db, normalized)
        THEN get_llvm_features_string(db, db[normalized])
        ELSE IF lower # cpu_name /\ exists(db, lower)
        THEN get_llvm_features_string(db, db[lower])
        ELSE <<>>

(***************************************************************************)
(* The translation functions called on a loaded store (SpecLlvm).  The     *)
(* store holds the three family roots and one more descriptor, whose name  *)
(* runs over the keys of both CPU tables and a few names outside them.     *)
(***************************************************************************)
\* names of stored descriptors outside the CPU tables
OtherStoredNames ==
    { <<"c", "o", "r", "t", "e", "x", "_", "a", "7", "2">>,
      <<"n", "e", "o", "v", "e", "r", "s", "e", "_", "n", "1">>,
      <<"s", "k", "y", "l", "a", "k", "e", "_", "a", "v", "x", "5", "1", "2">>,
      <<"z", "n", "v", "e", "r", "3">>, <<"n", "a", "t", "i", "v", "e">>,
      <<"h", "a", "s", "w", "e", "l", "l">> }

StoredNames ==
    {pair[1] : pair \in aarch64_cpu_map \cup x86_64_cpu_map} \cup OtherStoredNames

LlvmRoots == {Spelled.aarch64, Spelled.x86_64, Spelled.riscv64}

LlvmFeatureChoices ==
    { {}, {"fp", "cpuid", "sha3", "asimdhp", "fphp"}, {"sse4_1", "3dnow", "avx2", "ssse3"} }

LlvmStores ==
    { Store({Root(r) : r \in LlvmRoots}
            \cup {Microarchitecture(n, parents, v, f, EmptyMap, 0, "")}) :
        n \in StoredNames, parents \in {<<r>> : r \in LlvmRoots} \cup {<<>>},
        v \in {"Apple", "generic"}, f \in LlvmFeatureChoices }

\* arch_family arguments: the families with tables and one without
LlvmFamilies ==
    { <<"a", "a", "r", "c", "h", "6", "4">>, <<"x", "8", "6", "_", "6", "4">>,
      <<"x", "8", "6">>, <<"r", "i", "s", "c", "v", "6", "4">>,
      <<"r", "i", "s", "c", "v", "3", "2">>, <<"p", "p", "c", "6", "4", "l", "e">> }

LlvmFeatures == {"fp", "cpuid", "sha3", "asimdhp", "sse4_1", "3dnow", "avx2", "ssse3"}

\* names a caller passes in the toolchain's spelling
LlvmCpuNames ==
    { <<"n", "a", "t", "i", "v", "e">>, <<"g", "e", "n", "e", "r", "i", "c">>,
      <<"z", "n", "v", "e", "r", "3">>, <<"a", "p", "p", "l", "e", "-", "m", "1">>,
      <<"a", "p", "p", "l", "e", "-", "m", "9">>,
      <<"c", "o", "r", "t", "e", "x", "-", "a", "7", "2">>,
      <<"c", "o", "r", "t", "e", "x", "-", "a", "9">>,
      <<"n", "e", "o", "v", "e", "r", "s", "e", "-", "n", "1">>,
      <<"s", "k", "y", "l", "a", "k", "e", "-", "a", "v", "x", "5", "1", "2">>,
      <<"t", "i", "g", "e", "r", "-", "l", "a", "k", "e">>,
      <<"t", "h", "u", "n", "d", "e", "r", "x", "3", "t", "1", "1", "0">>, <<"M", "1">>,
      <<"Z", "N", "V", "E", "R", "3">>,
      <<"S", "k", "y", "l", "a", "k", "e", "_", "A", "V", "X", "5", "1", "2">>,
      <<"h", "a", "s", "w", "e", "l", "l">>, <<"z", "e", "n", "3">> }

InitLlvm ==
    /\ targets \in LlvmStores
    /\ feature_aliases = EmptyMap
    /\ family_features = EmptyMap
    /\ machine = "x86_64"
    /\ platform = "linux"
    /\ call = Idle
    /\ AfterConstruction

MapFeatureToLlvm ==
    /\ call = Idle
    /\ \E arch_family \in LlvmFamilies, feature \in LlvmFeatures :
        call' = [op |-> "map_feature_to_llvm", arch_family |-> arch_family,
                 feature |-> feature,
                 result |-> map_feature_to_llvm(arch_family, feature)]
    /\ UNCHANGED <<store, machine, platform, singleton>>

GetLlvmFeatures ==
    /\ call = Idle
    /\ \E name \in DOMAIN targets :
        call' = [op |-> "get_llvm_features", d |-> targets[name],
                 result |-> get_llvm_features(targets, targets[name])]
    /\ UNCHANGED <<store, machine, platform, singleton>>

GetLlvmCpuName ==
    /\ call = Idle
    /\ \E name \in DOMAIN targets :
        call' = [op |-> "get_llvm_cpu_name", d |-> targets[name],
                 result |-> get_llvm_cpu_name(targets, targets[name])]
    /\ UNCHANGED <<store, machine, platform, singleton>>

\* normalize_cpu_name on a name a caller passes in, or on the name
\* get_llvm_cpu_name has just returned for d, with d's family
NormalizeCpuName ==
    /\ \/ /\ call = Idle
          /\ \E arch_family \in LlvmFamilies, llvm_name \in LlvmCpuNames :
              call' = [op |-> "normalize_cpu_name", arch_family |-> arch_family,
                       llvm_name |-> llvm_name,
                       result |-> normalize_cpu_name(arch_family, llvm_name)]
       \/ /\ call.op = "get_llvm_cpu_name"
          /\ call' = [op |-> "normalize_cpu_name", d |-> call.d,
                      arch_family |-> family(targets, call.d),
                      llvm_name |-> call.result,
                      result |-> normalize_cpu_name(family(targets, call.d), call.result)]
    /\ UNCHANGED <<store, machine, platform, singleton>>

GetLlvmFeaturesForCpu ==
    /\ call = Idle
    /\ \E cpu_name \in LlvmCpuNames, arch_family \in LlvmFamilies :
        call' = [op |-> "get_llvm_features_for_cpu", cpu_name |-> cpu_name,
                 arch_family |-> arch_family,
                 result |-> get_llvm_features_for_cpu(targets, cpu_name, arch_family)]
    /\ UNCHANGED <<store, machine, platform, singleton>>

NextLlvm ==
    \/ MapFeatureToLlvm
    \/ GetLlvmFeatures
    \/ GetLlvmCpuName
    \/ NormalizeCpuName
    \/ GetLlvmFeaturesForCpu
    \/ Return

SpecLlvm == InitLlvm /\ [][NextLlvm]_vars

(***************************************************************************)
(* The loader: load_from_string on a descriptor document.  A document is   *)
(* what nlohmann::json::parse makes of the text: whether it parses, and    *)
(* its objects, each iterated in key order.                                *)
(***************************************************************************)
\* a JSON value that is not a string, where the loader calls get<std::string>()
NotAString == "<number>"

\* a key the object does not have
Absent == "<absent>"

\* an array the object does not have
AbsentArray == {Absent}

\* the keys of the alias and conversion objects, in std::map order
KeyOrder == <<"0x41", "0x61", "fp", "pni", "simd", "sse4.1">>

\* the tables of a store as one value
Database ==
    [targets |-> targets, feature_aliases |-> feature_aliases,
     family_features |-> family_features, darwin_flags |-> darwin_flags,
     arm_vendors |-> arm_vendors, loaded |-> loaded]

\* the store before load_embedded_data()
EmptyDatabase ==
    [targets |-> <<>>, feature_aliases |-> <<>>, family_features |-> <<>>,
     darwin_flags |-> <<>>, arm_vendors |-> <<>>, loaded |-> FALSE]

\* map[key] = value
Assign(map, key, value) ==
    [k \in DOMAIN map \cup {key} |-> IF k = key THEN value ELSE map[k]]

\* db is the tables and `thrown`: whether get<std::string>() has thrown
\* data.contains("features"): the entry has the field
fill_target_from_json(db, name, data) ==
    LET features == IF "features" \in DOMAIN data THEN data.features ELSE {}
    IN  IF name \in DOMAIN db.targets THEN db
        ELSE IF NotAString \in Range(data.from) THEN [db EXCEPT !.thrown = TRUE]
        ELSE IF NotAString \in features THEN [db EXCEPT !.thrown = TRUE]
        ELSE [db EXCEPT !.targets =
                Assign(@, name,
                       Microarchitecture(name, data.from,
                                         IF data.vendor = Absent THEN "generic"
                                         ELSE data.vendor,
                                         features, EmptyMap, 0, ""))]

\* the loop over j["microarchitectures"]
RECURSIVE FillTargets(_, _, _)
FillTargets(db, names, object) ==
    IF names = <<>> \/ db.thrown THEN db
    ELSE FillTargets(fill_target_from_json(db, Head(names), object[Head(names)]),
                     Tail(names), object)

\* one entry of j["feature_aliases"]: "any_of", then "families"
FillAlias(db, key, alias_data) ==
    LET after_any_of ==
            IF alias_data.any_of = AbsentArray THEN db
            ELSE IF NotAString \in alias_data.any_of THEN [db EXCEPT !.thrown = TRUE]
            ELSE [db EXCEPT !.feature_aliases = Assign(@, key, alias_data.any_of)]
    IN  IF after_any_of.thrown \/ alias_data.families = AbsentArray THEN after_any_of
        ELSE IF NotAString \in alias_data.families
        THEN [after_any_of EXCEPT !.thrown = TRUE]
        ELSE [after_any_of EXCEPT !.family_features = Assign(@, key, alias_data.families)]

\* the loop over j["feature_aliases"]
RECURSIVE FillAliases(_, _, _)
FillAliases(db, keys, object) ==
    IF keys = <<>> \/ db.thrown THEN db
    ELSE FillAliases(FillAlias(db, Head(keys), object[Head(keys)]), Tail(keys), object)

\* the loops over conv["darwin_flags"] and conv["arm_vendors"]: table names
\* the member filled
RECURSIVE FillConversion(_, _, _, _)
FillConversion(db, table, keys, object) ==
    IF keys = <<>> \/ db.thrown THEN db
    ELSE FillConversion(IF object[Head(keys)] = NotAString
                        THEN [db EXCEPT !.thrown = TRUE]
                        ELSE [db EXCEPT ![table] = Assign(@, Head(keys), object[Head(keys)])],
                        table, Tail(keys), object)

Keys(object, order) == SelectSeq(order, LAMBDA k : k \in DOMAIN object)

\* the tables after the call and how it ended: "true", "false", or
\* "type_error" when get<std::string>() threw and nothing caught it
load_json_into_database(db, doc) ==
    IF ~doc.parses THEN [db |-> db, result |-> "false"]
    ELSE LET start == [targets |-> db.targets, feature_aliases |-> db.feature_aliases,
                       family_features |-> db.family_features,
                       darwin_flags |-> db.darwin_flags, arm_vendors |-> db.arm_vendors,
                       loaded |-> db.loaded, thrown |-> FALSE]
             filled == FillTargets(start, Keys(doc.microarchitectures, NameOrder),
                                   doc.microarchitectures)
             aliased == FillAliases(filled, Keys(doc.feature_aliases, KeyOrder),
                                    doc.feature_aliases)
             darwin == FillConversion(aliased, "darwin_flags",
                                      Keys(doc.darwin_flags, KeyOrder), doc.darwin_flags)
             done == FillConversion(darwin, "arm_vendors",
                                    Keys(doc.arm_vendors, KeyOrder), doc.arm_vendors)
             tables == [targets |-> done.targets, feature_aliases |-> done.feature_aliases,
                        family_features |-> done.family_features,
                        darwin_flags |-> done.darwin_flags, arm_vendors |-> done.arm_vendors,
                        loaded |-> IF done.thrown THEN db.loaded ELSE TRUE]
         IN  [db |-> tables, result |-> IF done.thrown THEN "type_error" ELSE "true"]

load_from_string(db, doc) == load_json_into_database(db, doc)

\* load_from_string of src/src/microarchitecture.cpp: every exception caught
\* and turned into false
load_from_string_catching(db, doc) ==
    LET internal == load_json_into_database(db, doc)
    IN  [internal EXCEPT !.result = IF @ = "type_error" THEN "false" ELSE @]

\* the constructor: load_embedded_data() on the empty store, result ignored
load_embedded_data(doc) == load_from_string(EmptyDatabase, doc).db

Entry(from, vendor) == [from |-> from, vendor |-> vendor]

Alias(any_of, families) == [any_of |-> any_of, families |-> families]

Document(microarchitectures, aliases, darwin, arm) ==
    [parses |-> TRUE, microarchitectures |-> microarchitectures,
     feature_aliases |-> aliases, darwin_flags |-> darwin, arm_vendors |-> arm]

\* the bundled document; in one variant zen names a parent it does not define
EmbeddedDocuments ==
    { Document([n \in {"x86_64", "x86_64_v2", "zen"} |->
                    IF n = "x86_64" THEN Entry(<<>>, Absent)
                    ELSE IF n = "x86_64_v2"
                    THEN [from |-> <<"x86_64">>, vendor |-> Absent,
                          features |-> {"ssse3", "sse4_1"}]
                    ELSE Entry(zen_from, "AuthenticAMD")],
               [k \in {"fp", "simd"} |->
                    IF k = "fp" THEN Alias(AbsentArray, {"aarch64"})
                    ELSE Alias({"sse2"}, AbsentArray)],
               [k \in {"pni"} |-> "sse3"],
               [k \in {"0x41"} |-> "ARM"]) :
        zen_from \in {<<"x86_64_v2">>, <<"x86_64_v2", "haswell">>} }

\* the documents given to load_from_string
Documents ==
    { \* text that is not JSON
      [Document(<<>>, <<>>, <<>>, <<>>) EXCEPT !.parses = FALSE],
      \* names the store has already, with other values, and a new descriptor
      Document([n \in {"zen", "zen2"} |->
                    IF n = "zen" THEN Entry(<<"x86_64">>, Absent)
                    ELSE Entry(<<"zen">>, "AuthenticAMD")],
               [k \in {"simd"} |-> Alias({"avx"}, {"x86_64"})],
               [k \in {"pni"} |-> "sse3_renamed"],
               [k \in {"0x41"} |-> "Other"]),
      \* only new names
      Document([n \in {"aarch64", "m1"} |->
                    IF n = "aarch64" THEN Entry(<<>>, Absent)
                    ELSE Entry(<<"aarch64">>, "Apple")],
               <<>>, <<>>, [k \in {"0x61"} |-> "Apple"]),
      \* a number in the "from" array of the second descriptor
      Document([n \in {"haswell", "zen2"} |->
                    IF n = "haswell" THEN Entry(<<"x86_64">>, "GenuineIntel")
                    ELSE Entry(<<"zen", NotAString>>, "AuthenticAMD")],
               [k \in {"simd"} |-> Alias({"avx2"}, AbsentArray)], <<>>, <<>>),
      \* a number in the "any_of" array of the second alias
      Document(<<>>,
               [k \in {"fp", "simd"} |->
                    IF k = "fp" THEN Alias(AbsentArray, {"x86_64"})
                    ELSE Alias({"sse2", NotAString}, AbsentArray)],
               <<>>, <<>>),
      \* a number as the value of the second darwin flag
      Document(<<>>, <<>>,
               [k \in {"pni", "sse4.1"} |-> IF k = "pni" THEN "sse3_other" ELSE NotAString],
               [k \in {"0x61"} |-> "Apple"]),
      \* descriptors with features: ssse3 without sse3, both, sse3 alone, and a
      \* name the store has already
      Document([n \in {"nehalem", "core2", "nocona", "zen"} |->
                    [from |-> <<"x86_64">>, vendor |-> "GenuineIntel",
                     features |-> IF n = "nehalem" THEN {"ssse3", "sse4_1"}
                                  ELSE IF n = "core2" THEN {"ssse3", "sse3"}
                                  ELSE IF n = "nocona" THEN {"sse3"}
                                  ELSE {"ssse3"}]],
               <<>>, <<>>, <<>>),
      \* a descriptor that names itself as its parent
      Document([n \in {"zen2"} |-> Entry(<<"zen2">>, "AuthenticAMD")], <<>>, <<>>, <<>>),
      \* a descriptor whose parent is stored already and may name it as a parent
      Document([n \in {"haswell"} |-> Entry(<<"zen">>, "GenuineIntel")], <<>>, <<>>, <<>>) }

InitLoad ==
    /\ \E doc \in EmbeddedDocuments :
        LET db == load_embedded_data(doc)
        IN  /\ targets = db.targets
            /\ feature_aliases = db.feature_aliases
            /\ family_features = db.family_features
            /\ darwin_flags = db.darwin_flags
            /\ arm_vendors = db.arm_vendors
            /\ loaded = db.loaded
    /\ machine = "x86_64"
    /\ platform = "linux"
    /\ static_guard = "done"
    /\ threads = <<>>
    /\ cache = ColdCache
    /\ call = Idle

\* load_from_string(document), in a library built from either copy of
\* microarchitecture.cpp
LoadFromString ==
    /\ call = Idle
    /\ \E doc \in Documents :
       \E outcome \in {load_from_string(Database, doc),
                       load_from_string_catching(Database, doc)} :
        /\ targets' = outcome.db.targets
        /\ feature_aliases' = outcome.db.feature_aliases
        /\ family_features' = outcome.db.family_features
        /\ darwin_flags' = outcome.db.darwin_flags
        /\ arm_vendors' = outcome.db.arm_vendors
        /\ loaded' = outcome.db.loaded
        /\ call' = [op |-> "load_from_string", document |-> doc, before |-> Database,
                    result |-> outcome.result]
    /\ UNCHANGED <<machine, platform, singleton>>

NextLoad == LoadFromString \/ Return

SpecLoad == InitLoad /\ [][NextLoad]_vars

(***************************************************************************)
(* The singleton: threads calling MicroarchitectureDatabase::instance()    *)
(* for the first time, then reading the store.  The function-local static *)
(* is initialised under the guard the language gives it: the first thread  *)
(* to arrive runs the constructor, a thread arriving meanwhile waits.      *)
(***************************************************************************)
NumThreads == 2

Threads == 1..NumThreads

\* mutant: a thread arriving during the construction constructs as well
instance_outcome_unguarded(guard) ==
    IF guard = "done" THEN "return" ELSE "construct"

\* what a thread entering instance() does, by the state of the static's guard
instance_outcome(guard) ==
    IF guard = "uninitialized" THEN "construct"
    ELSE IF guard = "in_progress" THEN "wait"
    ELSE "return"

\* MicroarchitectureDatabase::get: the descriptor, or nothing
get(db, name) == IF exists(db, name) THEN <<db[name]>> ELSE <<>>

\* the read-only calls the threads make once they hold the reference
Queries ==
    { <<"get", "zen">>, <<"get", "haswell">>, <<"exists", "x86_64">>, <<"all">>,
      <<"has_feature", "zen", "simd">> }

Answer(query) ==
    IF query[1] = "get" THEN get(targets, query[2])
    ELSE IF query[1] = "exists" THEN exists(targets, query[2])
    ELSE IF query[1] = "all" THEN all(targets)
    ELSE has_feature(targets, feature_aliases, family_features, targets[query[2]], query[3])

InitInstance ==
    /\ targets = EmptyDatabase.targets
    /\ feature_aliases = EmptyDatabase.feature_aliases
    /\ family_features = EmptyDatabase.family_features
    /\ darwin_flags = EmptyDatabase.darwin_flags
    /\ arm_vendors = EmptyDatabase.arm_vendors
    /\ loaded = EmptyDatabase.loaded
    /\ machine = "x86_64"
    /\ platform = "linux"
    /\ static_guard = "uninitialized"
    /\ threads = [t \in Threads |-> [pc |-> "start", constructed |-> FALSE,
                                     waited |-> FALSE, observed |-> <<>>]]
    /\ cache = ColdCache
    /\ call = Idle

\* a thread reaches `static MicroarchitectureDatabase db;`
EnterInstance(t) ==
    /\ threads[t].pc = "start"
    /\ LET outcome == instance_outcome(static_guard)
       IN  \/ /\ outcome = "construct"
              /\ static_guard' = "in_progress"
              /\ threads' = [threads EXCEPT ![t].pc = "constructing"]
           \/ /\ outcome = "wait"
              /\ static_guard' = static_guard
              /\ threads' = [threads EXCEPT ![t].pc = "waiting", ![t].waited = TRUE]
           \/ /\ outcome = "return"
              /\ static_guard' = static_guard
              /\ threads' = [threads EXCEPT ![t].pc = "ready"]
    /\ UNCHANGED <<store, machine, platform, cache, call>>

\* the constructor, first part of load_embedded_data(): the descriptors
FillEmbeddedTargets(t) ==
    /\ threads[t].pc = "constructing"
    /\ \E doc \in EmbeddedDocuments : targets' = load_embedded_data(doc).targets
    /\ threads' = [threads EXCEPT ![t].pc = "loading"]
    /\ UNCHANGED <<feature_aliases, family_features, darwin_flags, arm_vendors, loaded,
                   machine, platform, static_guard, cache, call>>

\* the rest of load_embedded_data(); the constructor returns and the static
\* is initialised
FinishConstruction(t) ==
    /\ threads[t].pc = "loading"
    /\ \E doc \in EmbeddedDocuments :
        LET db == load_embedded_data(doc)
        IN  /\ db.targets = targets
            /\ feature_aliases' = db.feature_aliases
            /\ family_features' = db.family_features
            /\ darwin_flags' = db.darwin_flags
            /\ arm_vendors' = db.arm_vendors
            /\ loaded' = db.loaded
    /\ static_guard' = "done"
    /\ threads' = [threads EXCEPT ![t].pc = "ready", ![t].constructed = TRUE]
    /\ UNCHANGED <<targets, machine, platform, cache, call>>

\* a waiting thread goes on once the static is initialised
LeaveWait(t) ==
    /\ threads[t].pc = "waiting"
    /\ static_guard = "done"
    /\ threads' = [threads EXCEPT ![t].pc = "ready"]
    /\ UNCHANGED <<store, machine, platform, static_guard, cache, call>>

\* get, exists, all or has_feature through the reference instance() returned
Query(t) ==
    /\ threads[t].pc = "ready"
    /\ \E query \in Queries :
        threads' = [threads EXCEPT
                        ![t].observed = <<[query |-> query, result |-> Answer(query)]>>]
    /\ UNCHANGED <<store, machine, platform, static_guard, cache, call>>

NextInstance ==
    \E t \in Threads :
        \/ EnterInstance(t)
        \/ FillEmbeddedTargets(t)
        \/ FinishConstruction(t)
        \/ LeaveWait(t)
        \/ Query(t)

SpecInstance == InitInstance /\ [][NextInstance]_vars

(***************************************************************************)
(* The init cache of the C interface (SpecCache): threads calling          *)
(* archspec_host_name, archspec_host_vendor, archspec_target_count and     *)
(* archspec_target_name for the first time.  ensure_initialized() tests    *)
(* and sets the plain static bool s_initialized with no lock, so each      *)
(* statement of it is a step of its own.  A const char* handed out points  *)
(* into the static it was taken from, as that static was after its         *)
(* `writes`-th assignment.                                                 *)
(***************************************************************************)
\* what detect_cpu_info() returns on this host
HostInfo == [DefaultInfo EXCEPT !.vendor = "AuthenticAMD", !.features = {"sse2"}]

\* the calls of the interface that go through ensure_initialized()
CacheCalls ==
    { <<"archspec_host_name">>, <<"archspec_host_vendor">>, <<"archspec_target_count">> }
    \cup { <<"archspec_target_name", index>> : index \in {0, 3} }

\* c_str() of a static, or of a string in it: a pointer into what it holds now
c_str(static, name) ==
    [null |-> FALSE, into |-> static, writes |-> cache[static].writes, str |-> name]

\* what the call returns once ensure_initialized() is through
cached_result(fn) ==
    IF fn[1] = "archspec_host_name"
    THEN IF cache.s_host_name.value = "" THEN NULL
         ELSE c_str("s_host_name", cache.s_host_name.value)
    ELSE IF fn[1] = "archspec_host_vendor"
    THEN IF cache.s_host_vendor.value = "" THEN NULL
         ELSE c_str("s_host_vendor", cache.s_host_vendor.value)
    ELSE IF fn[1] = "archspec_target_count"
    THEN [size |-> Len(cache.s_target_names.value)]
    ELSE IF fn[2] >= Len(cache.s_target_names.value) THEN NULL
         ELSE c_str("s_target_names", cache.s_target_names.value[fn[2] + 1])

\* an assignment to a static by thread t.  Another thread standing at the
\* same assignment writes the same object with nothing ordering the two: a
\* data race, after which the content is the value or indeterminate.
assigned(static, value, t) ==
    { [value |-> value, writes |-> cache[static].writes + 1, determinate |-> d] :
        d \in IF \E u \in Threads \ {t} : threads[u].pc = threads[t].pc
              THEN {TRUE, FALSE} ELSE {TRUE} }

InitCache ==
    /\ \E doc \in EmbeddedDocuments :
        LET db == load_embedded_data(doc)
        IN  /\ targets = db.targets
            /\ feature_aliases = db.feature_aliases
            /\ family_features = db.family_features
            /\ darwin_flags = db.darwin_flags
            /\ arm_vendors = db.arm_vendors
            /\ loaded = db.loaded
    /\ machine = "x86_64"
    /\ platform = "linux"
    /\ static_guard = "done"
    /\ threads = [t \in Threads |-> [pc |-> "start", fn |-> <<>>, returned |-> <<>>]]
    /\ cache = ColdCache
    /\ call = Idle

\* a thread calls one of the functions: if (!s_initialized)
EnsureInitialized(t) ==
    /\ threads[t].pc = "start"
    /\ \E fn \in CacheCalls :
        threads' = [threads EXCEPT
                        ![t].fn = fn,
                        ![t].pc = IF cache.s_initialized THEN "return" ELSE "s_host_name"]
    /\ UNCHANGED <<store, machine, platform, static_guard, cache, call>>

\* s_host_name = archspec::host().name();
AssignHostName(t) ==
    /\ threads[t].pc = "s_host_name"
    /\ cache' \in { [cache EXCEPT !.s_host_name = a] :
                      a \in assigned("s_host_name",
                                     host(targets, machine, platform, HostInfo).name, t) }
    /\ threads' = [threads EXCEPT ![t].pc = "s_host_vendor"]
    /\ UNCHANGED <<store, machine, platform, static_guard, call>>

\* s_host_vendor = archspec::detect_cpu_info().vendor;
AssignHostVendor(t) ==
    /\ threads[t].pc = "s_host_vendor"
    /\ cache' \in { [cache EXCEPT !.s_host_vendor = a] :
                      a \in assigned("s_host_vendor", HostInfo.vendor, t) }
    /\ threads' = [threads EXCEPT ![t].pc = "s_target_names"]
    /\ UNCHANGED <<store, machine, platform, static_guard, call>>

\* s_target_names = db.all_names();
AssignTargetNames(t) ==
    /\ threads[t].pc = "s_target_names"
    /\ cache' \in { [cache EXCEPT !.s_target_names = a] :
                      a \in assigned("s_target_names", all(targets), t) }
    /\ threads' = [threads EXCEPT ![t].pc = "s_initialized"]
    /\ UNCHANGED <<store, machine, platform, static_guard, call>>

\* s_initialized = true;
SetInitialized(t) ==
    /\ threads[t].pc = "s_initialized"
    /\ cache' = [cache EXCEPT !.s_initialized = TRUE]
    /\ threads' = [threads EXCEPT ![t].pc = "return"]
    /\ UNCHANGED <<store, machine, platform, static_guard, call>>

\* the function returns what it reads from the statics
ReturnCached(t) ==
    /\ threads[t].pc = "return"
    /\ threads' = [threads EXCEPT ![t].pc = "done",
                                  ![t].returned = <<cached_result(threads[t].fn)>>]
    /\ UNCHANGED <<store, machine, platform, static_guard, cache, call>>

NextCache ==
    \E t \in Threads :
        \/ EnsureInitialized(t)
        \/ AssignHostName(t)
        \/ AssignHostVendor(t)
        \/ AssignTargetNames(t)
        \/ SetInitialized(t)
        \/ ReturnCached(t)

SpecCache == InitCache /\ [][NextCache]_vars

(***************************************************************************)
(* Claims about host selection and the compatibility search.               *)
(***************************************************************************)
Descriptors == {targets[n] : n \in DOMAIN targets}

\* the three conjuncts of the x86_64 predicate, as the claim states them
InX86Family(d) == d.name = "x86_64" \/ "x86_64" \in Range(ancestors(targets, d))

VendorOk(d, signal) == d.vendor = "generic" \/ d.vendor = signal.vendor

FeaturesOk(d, signal) == d.features \subseteq signal.features

X86Compatible(signal) ==
    {d \in Descriptors : InX86Family(d) /\ VendorOk(d, signal) /\ FeaturesOk(d, signal)}

\* C1: host selection returns a descriptor with a non-empty name, and when the
\* compatibility search returns no candidate the result is the fresh generic
\* descriptor of the architecture: named after it, vendor "generic", no
\* features, no parents.
C1_HostAlwaysUsable ==
    call.op = "host" =>
        /\ call.result.name # ""
        /\ call.compatible = <<>> =>
            /\ call.result.name = call.arch
            /\ call.result.vendor = "generic"
            /\ call.result.features = {}
            /\ call.result.parent_names = <<>>

C1_Witness ==
    /\ call.op = "host"
    /\ call.compatible = <<>>
    /\ ~exists(targets, call.arch)

\* C2: for x86_64, i686 and i386, when some descriptor satisfies the predicate,
\* the search returns exactly the descriptors in the x86_64 family whose vendor
\* is generic or the signal's and whose features are all in the signal's.
C2_X86CompatibleExact ==
    (/\ call.op = "compatible_microarchitectures"
     /\ call.arch \in {"x86_64", "i686", "i386"}
     /\ X86Compatible(call.info) # {})
    => /\ {targets[n] : n \in Range(call.result)} = X86Compatible(call.info)
       /\ Len(call.result) = Cardinality(X86Compatible(call.info))

C2_Witness ==
    /\ call.op = "compatible_microarchitectures"
    /\ call.arch = "i386"
    /\ Len(call.result) >= 2
    /\ \E d \in Descriptors : InX86Family(d) /\ VendorOk(d, call.info) /\ ~FeaturesOk(d, call.info)
    /\ \E d \in Descriptors : InX86Family(d) /\ ~VendorOk(d, call.info) /\ FeaturesOk(d, call.info)
    /\ \E d \in Descriptors : ~InX86Family(d) /\ VendorOk(d, call.info) /\ FeaturesOk(d, call.info)

\* C3: the descriptor host selection returns is one of the descriptors the
\* compatibility search returned for the same signal and architecture, or it
\* has vendor "generic".
C3_HostIsCompatible ==
    call.op = "host" =>
        \/ \E n \in Range(call.compatible) : targets[n] = call.result
        \/ call.result.vendor = "generic"

C3_Witness ==
    /\ call.op = "host"
    /\ call.result.vendor # "generic"
    /\ Len(call.compatible) >= 3
    /\ \E n \in Range(call.compatible) : targets[n] = call.result

Descendants(d) == {e \in Descriptors : d.name \in Range(ancestors(targets, e))}

\* the signal is d's vendor and d's features plus one feature that neither d
\* nor any descendant of d declares
OneExtraFeature(signal, d) ==
    /\ InX86Family(d)
    /\ signal.vendor = d.vendor
    /\ \E x \in signal.features :
        /\ x \notin d.features
        /\ signal.features = d.features \cup {x}
        /\ \A e \in Descendants(d) : x \notin e.features

\* every other compatible descriptor is an ancestor of d with fewer ancestors
OnlyAncestorsCompatible(compatible, d) ==
    \A n \in Range(compatible) :
        n # d.name =>
            /\ n \in Range(ancestors(targets, d))
            /\ Len(ancestors(targets, targets[n])) < Len(ancestors(targets, d))

\* C4 as stated: for an x86_64 signal with d's vendor and d's features plus one
\* extra feature that neither d nor a descendant declares, host selection
\* returns d.
C4_AsStated ==
    (call.op = "host" /\ call.arch = "x86_64") =>
        \A d \in Descriptors : OneExtraFeature(call.info, d) => call.result = d

\* C4 as amended: under the same conditions, host selection returns d when
\* every other compatible descriptor is an ancestor of d with fewer ancestors
\* than d.
C4_OneExtraFeatureSelectsD ==
    (call.op = "host" /\ call.arch = "x86_64") =>
        \A d \in Descriptors :
            (OneExtraFeature(call.info, d) /\ OnlyAncestorsCompatible(call.compatible, d))
            => call.result = d

C4_Witness ==
    /\ call.op = "host"
    /\ call.arch = "x86_64"
    /\ call.info.vendor = "AuthenticAMD"
    /\ call.result.name = "zen"
    /\ call.result.features # {}
    /\ OneExtraFeature(call.info, call.result)
    /\ OnlyAncestorsCompatible(call.compatible, call.result)
    /\ Len(call.compatible) = 3
    /\ Descendants(call.result) # {}

(***************************************************************************)
(* The comparisons and has_feature (SpecEntity).                           *)
(***************************************************************************)
\* d is the descriptor the store holds under d's name
Stored(d) == d.name \in DOMAIN targets /\ targets[d.name] = d

\* one step up the "from" lists: the parents of the named descriptors
ParentsOf(names) ==
    UNION {Range(targets[n].parent_names) : n \in names \cap DOMAIN targets}

RECURSIVE UpwardClosure(_)
UpwardClosure(names) ==
    IF ParentsOf(names) \subseteq names THEN names
    ELSE UpwardClosure(names \cup ParentsOf(names))

\* the declared and the transitive ancestors of d
DeclaredOrTransitive(d) == UpwardClosure(Range(d.parent_names))

\* C5: for two stored descriptors a and b, a < b exactly when a.name is in
\* b.ancestors(); every declared or transitive ancestor of b is strictly less
\* than b; and when neither is an ancestor of the other, a < b, b < a, a > b
\* and b > a are all false.
C5_LessIffAncestor ==
    (call.op = "compare" /\ Stored(call.a) /\ Stored(call.b)) =>
        /\ call.lt = (call.a.name \in Range(ancestors(targets, call.b)))
        /\ call.gt = (call.b.name \in Range(ancestors(targets, call.a)))
        /\ call.a.name \in DeclaredOrTransitive(call.b) => call.lt
        /\ ( /\ call.a.name \notin DeclaredOrTransitive(call.b)
             /\ call.b.name \notin DeclaredOrTransitive(call.a) )
           => (~call.lt /\ ~call.gt)

\* a transitive ancestor compared with its descendant, in a store that also
\* holds two descriptors with parents neither of which is above the other
C5_Witness ==
    /\ call.op = "compare"
    /\ Stored(call.a) /\ Stored(call.b)
    /\ call.lt
    /\ call.a.name \notin Range(call.b.parent_names)
    /\ \E x \in DOMAIN targets : \E y \in DOMAIN targets :
        /\ targets[x].parent_names # <<>> /\ targets[y].parent_names # <<>>
        /\ x \notin DeclaredOrTransitive(targets[y])
        /\ y \notin DeclaredOrTransitive(targets[x])
        /\ x # y

\* C6: for every descriptor d, d < d and d > d are false and d <= d, d >= d
\* and d == d are true.
C6_StrictIrreflexiveNonStrictReflexive ==
    (call.op = "compare" /\ call.a = call.b) =>
        /\ ~call.lt
        /\ ~call.gt
        /\ call.le
        /\ call.ge
        /\ call.eq

C6_Witness ==
    /\ call.op = "compare"
    /\ call.a = call.b
    /\ Len(ancestors(targets, call.a)) >= 2
    /\ call.a.features # {}

\* the three ways has_feature(f) holds of d
OwnFeature(d, f) == f \in d.features

AliasHit(d, f) ==
    f \in DOMAIN feature_aliases /\ feature_aliases[f] \cap d.features # {}

FamilyHit(d, f) ==
    f \in DOMAIN family_features /\ family(targets, d) \in family_features[f]

\* a name in no descriptor's features and a key of neither table
UnknownFeature(f) ==
    /\ \A n \in DOMAIN targets : f \notin targets[n].features
    /\ f \notin DOMAIN feature_aliases
    /\ f \notin DOMAIN family_features

C7_Exact ==
    call.op = "has_feature" =>
        /\ call.result = ( \/ OwnFeature(call.d, call.feature)
                           \/ AliasHit(call.d, call.feature)
                           \/ FamilyHit(call.d, call.feature) )
        /\ UnknownFeature(call.feature) => ~call.result

C7_Frame ==
    call'.op = "has_feature" =>
        UNCHANGED <<store, machine, platform, singleton>>

\* C7: d.has_feature(f) is true exactly when f is one of d's own features, or
\* feature_aliases[f] exists and one of its features is among d's, or
\* family_features[f] exists and contains d.family(); a name that is in no
\* descriptor's features and a key of neither table yields false; and the
\* call changes no state.
C7_HasFeatureExact == []C7_Exact /\ [][C7_Frame]_vars

\* true through the alias table alone, by a feature that is not the only one
\* of the alias
C7_Witness ==
    /\ call.op = "has_feature"
    /\ call.result
    /\ ~OwnFeature(call.d, call.feature)
    /\ ~FamilyHit(call.d, call.feature)
    /\ Cardinality(feature_aliases[call.feature] \cap call.d.features) = 1
    /\ feature_aliases[call.feature] \ call.d.features # {}

(***************************************************************************)
(* optimization_flags (SpecFlags).                                         *)
(***************************************************************************)
\* the positions of d's entries for the compiler that the version satisfies
SatisfiedAt(d, compiler, version) ==
    {i \in DOMAIN compiler_entries(d, compiler) :
        satisfies_version(compiler_entries(d, compiler)[i].versions, version)}

Least(S) == CHOOSE i \in S : \A j \in S : i <= j

\* the template with every {name} replaced by the name
RECURSIVE Substituted(_, _)
Substituted(template, name) ==
    IF template = <<>> THEN <<>>
    ELSE IF Len(template) >= 3 /\ SubSeq(template, 1, 3) = Placeholder
    THEN NameTokens(name) \o Substituted(SubSeq(template, 4, Len(template)), name)
    ELSE <<Head(template)>> \o Substituted(Tail(template), name)

\* C8: when at least one of d's entries for the compiler is satisfied by the
\* version, optimization_flags returns the template of the first satisfied
\* entry in declared order with every {name} replaced by the entry's override
\* name or, when that is empty, by d's own name; later entries and the
\* ancestors are ignored.
C8_FirstSatisfiedEntry ==
    (call.op = "optimization_flags"
        /\ SatisfiedAt(call.d, call.compiler, call.version) # {}) =>
        LET entry == compiler_entries(call.d, call.compiler)[
                         Least(SatisfiedAt(call.d, call.compiler, call.version))]
        IN  call.result = Substituted(entry.flags,
                                      IF entry.name = "" THEN call.d.name ELSE entry.name)

\* two satisfied entries with different results, the first with an override
\* name, under an ancestor that has flags of its own
C8_Witness ==
    /\ call.op = "optimization_flags"
    /\ Cardinality(SatisfiedAt(call.d, call.compiler, call.version)) >= 2
    /\ call.result = <<"-march=", "znver1">>
    /\ \E n \in Range(ancestors(targets, call.d)) :
        /\ exists(targets, n)
        /\ optimization_flags(targets, targets[n], call.compiler, call.version)
               = <<"-march=", n, " -mtune=", n>>

\* what the i-th ancestor of d answers; an ancestor missing from the store
\* answers nothing
AncestorFlags(d, compiler, version, i) ==
    LET name == ancestors(targets, d)[i]
    IN  IF exists(targets, name)
        THEN optimization_flags(targets, targets[name], compiler, version)
        ELSE <<>>

AnsweringAncestors(d, compiler, version) ==
    {i \in DOMAIN ancestors(targets, d) : AncestorFlags(d, compiler, version, i) # <<>>}

\* C9: when d has no entry for the compiler or none is satisfied by the
\* version, optimization_flags is the first non-empty value of
\* a.optimization_flags(compiler, version) over the ancestors a of d in
\* ancestors() order, and the empty string when every ancestor yields the
\* empty string.
C9_AncestorFallback ==
    (call.op = "optimization_flags"
        /\ SatisfiedAt(call.d, call.compiler, call.version) = {}) =>
        LET answering == AnsweringAncestors(call.d, call.compiler, call.version)
        IN  call.result =
                IF answering = {} THEN <<>>
                ELSE AncestorFlags(call.d, call.compiler, call.version, Least(answering))

\* d has entries but none is satisfied, its first ancestor answers nothing
\* and two later ancestors answer differently
C9_Witness ==
    /\ call.op = "optimization_flags"
    /\ compiler_entries(call.d, call.compiler) # <<>>
    /\ SatisfiedAt(call.d, call.compiler, call.version) = {}
    /\ call.result # <<>>
    /\ 1 \notin AnsweringAncestors(call.d, call.compiler, call.version)
    /\ \E i \in AnsweringAncestors(call.d, call.compiler, call.version) :
       \E j \in AnsweringAncestors(call.d, call.compiler, call.version) :
        AncestorFlags(call.d, call.compiler, call.version, i)
            # AncestorFlags(call.d, call.compiler, call.version, j)

(***************************************************************************)
(* Version constraints (SpecVersion).                                      *)
(***************************************************************************)
\* a non-empty run of digits
IsNumeral(s) == s # <<>> /\ \A i \in DOMAIN s : IsDigit(s[i])

Components(s) == getline_parts(s, ".", <<>>)

\* numerals separated by single dots
IsVersion(s) ==
    /\ s # <<>>
    /\ s[Len(s)] # "."
    /\ \A i \in DOMAIN Components(s) : IsNumeral(Components(s)[i])

RECURSIVE StripZeros(_)
StripZeros(n) == IF n # <<>> /\ Head(n) = "0" THEN StripZeros(Tail(n)) ELSE n

\* the order of the integers two numerals denote, read off their digits
NumeralLess(x, y) ==
    LET a == StripZeros(x)
        b == StripZeros(y)
    IN  \/ Len(a) < Len(b)
        \/ /\ Len(a) = Len(b)
           /\ \E i \in DOMAIN a :
                /\ DigitValue(a[i]) < DigitValue(b[i])
                /\ \A j \in 1..(i - 1) : a[j] = b[j]

\* the i-th component, 0 when the version has fewer components
ComponentAt(v, i) == IF i <= Len(Components(v)) THEN Components(v)[i] ELSE <<"0">>

VersionLess(v, w) ==
    \E i \in 1..(Len(Components(v)) + Len(Components(w))) :
        /\ NumeralLess(ComponentAt(v, i), ComponentAt(w, i))
        /\ \A j \in 1..(i - 1) :
            /\ ~NumeralLess(ComponentAt(v, j), ComponentAt(w, j))
            /\ ~NumeralLess(ComponentAt(w, j), ComponentAt(v, j))

VersionLeq(v, w) == ~VersionLess(w, v)

MinOf(constraint) == SubSeq(constraint, 1, colon_pos(constraint) - 1)

MaxOf(constraint) == SubSeq(constraint, colon_pos(constraint) + 1, Len(constraint))

\* MIN:MAX with each side empty or a version, asked about a version
RangeQuery ==
    /\ call.op = "satisfies_version"
    /\ Contains(call.constraint, ":")
    /\ MinOf(call.constraint) = <<>> \/ IsVersion(MinOf(call.constraint))
    /\ MaxOf(call.constraint) = <<>> \/ IsVersion(MaxOf(call.constraint))
    /\ IsVersion(call.version)

InRange ==
    /\ MinOf(call.constraint) = <<>> \/ VersionLeq(MinOf(call.constraint), call.version)
    /\ MaxOf(call.constraint) = <<>> \/ VersionLeq(call.version, MaxOf(call.constraint))

ExactQuery == call.op = "satisfies_version" /\ ~Contains(call.constraint, ":")

\* the integer the numeral denotes is below 2^31
FitsInt(n) == NumeralLess(n, <<"2", "1", "4", "7", "4", "8", "3", "6", "4", "8">>)

AllFitInt(v) == \A i \in DOMAIN Components(v) : FitsInt(Components(v)[i])

\* C10: a constraint MIN:MAX is satisfied by v exactly when MIN <= v <= MAX,
\* both bounds inclusive, versions being compared as tuples of integers with
\* missing trailing components equal to 0; an empty MIN or MAX is no bound;
\* a constraint with no colon is satisfied only by the identical string.
C10_AsStated ==
    /\ RangeQuery => (call.result = InRange)
    /\ ExactQuery => (call.result = (call.constraint = call.version))

\* C10 for versions every component of which is below 2^31: the same statement
C10_WithinIntRange ==
    /\ ( /\ RangeQuery
         /\ AllFitInt(MinOf(call.constraint))
         /\ AllFitInt(MaxOf(call.constraint))
         /\ AllFitInt(call.version) ) => (call.result = InRange)
    /\ ExactQuery => (call.result = (call.constraint = call.version))

(***************************************************************************)
(* ancestors(), family() and generic() (SpecLineage).                      *)
(***************************************************************************)
\* the names of the stored descriptors that have no parents
StoreRoots == {n \in DOMAIN targets : targets[n].parent_names = <<>>}

\* the positions of ancestors(d) that hold a root of the store
RootPositions(d) ==
    {i \in DOMAIN ancestors(targets, d) : ancestors(targets, d)[i] \in StoreRoots}

\* no parents: the own name; otherwise the first root in ancestors() order
FirstRootOrOwnName(d) ==
    IF d.parent_names = <<>> \/ RootPositions(d) = {} THEN d.name
    ELSE ancestors(targets, d)[Least(RootPositions(d))]

\* C11 as stated: family() of a stored descriptor is its own name when it has
\* no parents, otherwise the only or the first root among its ancestors, and
\* in every case a root of the store.
C11_AsStated ==
    (call.op = "family" /\ Stored(call.d)) =>
        /\ call.result = FirstRootOrOwnName(call.d)
        /\ call.result \in StoreRoots

\* C11: family() of a stored descriptor is its own name when it has no
\* parents, otherwise the only or the first root among its ancestors, and its
\* own name when no ancestor is a root of the store; the result is a root of
\* the store whenever the descriptor has no parents or has a root among its
\* declared or transitive ancestors.
C11_FamilyIsFirstRootOrOwnName ==
    (call.op = "family" /\ Stored(call.d)) =>
        /\ call.result = FirstRootOrOwnName(call.d)
        /\ ( \/ call.d.parent_names = <<>>
             \/ DeclaredOrTransitive(call.d) \cap StoreRoots # {} )
           => call.result \in StoreRoots
        /\ ( /\ call.d.parent_names # <<>>
             /\ DeclaredOrTransitive(call.d) \cap StoreRoots = {} )
           => call.result = call.d.name

\* family() of a descriptor with two roots among its ancestors: the first
\* one in ancestors() order, which is not the last
C11_Witness ==
    /\ call.op = "family"
    /\ Stored(call.d)
    /\ Cardinality(RootPositions(call.d)) >= 2
    /\ call.result \in StoreRoots
    /\ \E i \in RootPositions(call.d) :
        ancestors(targets, call.d)[i] # call.result

\* the stored generic-vendor ancestors of d
GenericAncestors(d) ==
    {n \in DeclaredOrTransitive(d) \cap DOMAIN targets : targets[n].vendor = "generic"}

\* the ancestor count of the stored descriptor named n
AncestorCount(n) == Cardinality(DeclaredOrTransitive(targets[n]))

\* C12: generic() of a stored descriptor is its own name when its vendor is
\* "generic"; otherwise a generic-vendor ancestor whose ancestor count is the
\* greatest among its generic-vendor ancestors; and family() only when it has
\* no generic-vendor ancestor.
C12_MostSpecificGeneric ==
    (call.op = "generic" /\ Stored(call.d)) =>
        IF call.d.vendor = "generic" THEN call.result = call.d.name
        ELSE IF GenericAncestors(call.d) = {}
        THEN call.result = FirstRootOrOwnName(call.d)
        ELSE /\ call.result \in GenericAncestors(call.d)
             /\ \A n \in GenericAncestors(call.d) :
                    AncestorCount(n) <= AncestorCount(call.result)

\* generic() of a descriptor whose first generic-vendor ancestor in
\* ancestors() order is the root, with a more specific one after it
C12_Witness ==
    /\ call.op = "generic"
    /\ Stored(call.d)
    /\ call.d.vendor # "generic"
    /\ call.result \in GenericAncestors(call.d)
    /\ AncestorCount(call.result) > 0
    /\ \E i \in DOMAIN ancestors(targets, call.d) :
        /\ ancestors(targets, call.d)[i] \in GenericAncestors(call.d)
        /\ AncestorCount(ancestors(targets, call.d)[i]) = 0
        /\ \A j \in 1..i : ancestors(targets, call.d)[j] # call.result

\* generic() of a descriptor with no generic-vendor ancestor
C12_FallsBackToFamily ==
    /\ call.op = "generic"
    /\ Stored(call.d)
    /\ call.d.vendor # "generic"
    /\ GenericAncestors(call.d) = {}
    /\ call.result # call.d.name

NoDuplicates(s) == \A i \in DOMAIN s : \A j \in DOMAIN s : s[i] = s[j] => i = j

\* C13 as stated: ancestors() of a stored descriptor holds each name at most
\* once, its length is the number of distinct names reachable through the
\* parent links, and it is empty when the descriptor has no parents.
C13_AsStated ==
    (call.op = "ancestors" /\ Stored(call.d)) =>
        /\ NoDuplicates(call.result)
        /\ Len(call.result) = Cardinality(DeclaredOrTransitive(call.d))
        /\ call.d.parent_names = <<>> => call.result = <<>>

\* what does hold of ancestors() in either build: every reachable name is in
\* it, nothing else is, and a descriptor with no parents has none
C13_SameNames ==
    (call.op = "ancestors" /\ Stored(call.d)) =>
        /\ Range(call.result) = DeclaredOrTransitive(call.d)
        /\ call.d.parent_names = <<>> => call.result = <<>>

\* a direct parent that is an ancestor of an earlier direct parent, met twice
C13_ParentRepeated ==
    /\ call.op = "ancestors"
    /\ Stored(call.d)
    /\ NoDuplicates(call.d.parent_names)
    /\ ~NoDuplicates(call.result)

(***************************************************************************)
(* The aarch64 and POWER predicates and the fallback (SpecCompatible).     *)
(***************************************************************************)
InFamily(d, name) == d.name = name \/ name \in Range(ancestors(targets, d))

ResultDescriptors == {targets[n] : n \in Range(call.result)}

\* the aarch64 predicate as the claim states it
Aarch64CompatibleAsStated(signal) ==
    {d \in Descriptors : /\ InFamily(d, "aarch64")
                         /\ VendorOk(d, signal)
                         /\ d.vendor # "generic" => FeaturesOk(d, signal)}

\* the aarch64 predicate with the features asked of every descriptor and the
\* generic-vendor descriptors other than aarch64 left out
Aarch64Compatible(signal) ==
    {d \in Descriptors : /\ InFamily(d, "aarch64")
                         /\ VendorOk(d, signal)
                         /\ FeaturesOk(d, signal)
                         /\ d.vendor = "generic" => d.name = "aarch64"}

\* C14 as stated: for aarch64 with feature-based matching the search returns
\* exactly the descriptors in the aarch64 family whose vendor is generic or
\* the signal's and, when the vendor is not generic, whose features are all
\* in the signal's; a generic-vendor descriptor of the family is returned
\* for every signal.
C14_AsStated ==
    (/\ call.op = "compatible_microarchitectures"
     /\ call.arch = "aarch64"
     /\ platform = "linux")
    => /\ ResultDescriptors = Aarch64CompatibleAsStated(call.info)
       /\ \A d \in Descriptors :
            (InFamily(d, "aarch64") /\ d.vendor = "generic") => d \in ResultDescriptors

\* C14: for aarch64 with feature-based matching, when some descriptor
\* satisfies the predicate, the search returns exactly the descriptors in the
\* aarch64 family whose vendor is generic or the signal's, whose features are
\* all in the signal's and which, when their vendor is generic, are aarch64
\* itself; a generic-vendor descriptor of the family other than aarch64 is
\* returned for no signal.
C14_Aarch64CompatibleExact ==
    (/\ call.op = "compatible_microarchitectures"
     /\ call.arch = "aarch64"
     /\ platform = "linux")
    => /\ Aarch64Compatible(call.info) # {} =>
            /\ ResultDescriptors = Aarch64Compatible(call.info)
            /\ Len(call.result) = Cardinality(Aarch64Compatible(call.info))
       /\ \A d \in ResultDescriptors : d.vendor = "generic" => d.name = "aarch64"

\* an aarch64 search that returns the root and a vendor descriptor, and
\* leaves out a generic-vendor descriptor of the family whose vendor and
\* features pass, and a vendor descriptor whose features do not pass
C14_Witness ==
    /\ call.op = "compatible_microarchitectures"
    /\ call.arch = "aarch64"
    /\ platform = "linux"
    /\ Len(call.result) >= 2
    /\ \E d \in Descriptors \ ResultDescriptors :
        InFamily(d, "aarch64") /\ d.vendor = "generic" /\ FeaturesOk(d, call.info)
    /\ \E d \in Descriptors \ ResultDescriptors :
        InFamily(d, "aarch64") /\ d.vendor = call.info.vendor /\ ~FeaturesOk(d, call.info)

\* the POWER predicate as the claim states it: the family the argument names
PowerCompatibleAsStated(signal, arch) ==
    {d \in Descriptors : InFamily(d, arch) /\ d.generation <= signal.generation}

\* C15 as stated: for ppc64 and ppc64le the descriptors retained are exactly
\* those of the family the arch argument names whose generation is at most
\* the signal's, whatever get_machine() returns, and no descriptor of another
\* family is returned.
C15_AsStated ==
    (/\ call.op = "compatible_microarchitectures"
     /\ call.arch \in {"ppc64", "ppc64le"})
    => /\ PowerCompatibleAsStated(call.info, call.arch) # {} =>
            ResultDescriptors = PowerCompatibleAsStated(call.info, call.arch)
       /\ \A d \in ResultDescriptors : InFamily(d, call.arch)

\* what holds of the POWER search: the claim as stated when get_machine()
\* returns the arch argument
C15_WhenMachineIsArch ==
    (/\ call.op = "compatible_microarchitectures"
     /\ call.arch \in {"ppc64", "ppc64le"}
     /\ machine = call.arch)
    => /\ PowerCompatibleAsStated(call.info, call.arch) # {} =>
            ResultDescriptors = PowerCompatibleAsStated(call.info, call.arch)
       /\ \A d \in ResultDescriptors : InFamily(d, call.arch)

\* no store descriptor satisfies the predicate selected for call.arch
NothingSatisfies ==
    \A n \in DOMAIN targets :
        ~checker(targets, machine, platform, call.arch, call.info, targets[n])

FallbackTaken == ~IsKnownArch(call.arch) \/ NothingSatisfies

C16_UnrecognisedStored ==
    /\ call.op = "compatible_microarchitectures"
    /\ ~IsKnownArch(call.arch)
    /\ call.result = <<call.arch>>

(***************************************************************************)
(* The loader (SpecLoad).                                                  *)
(***************************************************************************)
LoadEnded == call.op = "load_from_string"

\* every entry the table had before the call, with the value it had
KeepsEntries(before, after) ==
    \A k \in DOMAIN before : k \in DOMAIN after /\ after[k] = before[k]

\* C17 as stated: after a load that did not succeed, whether the text was no
\* JSON or a field had the wrong type, every table is what it was before the
\* call.
C17_AsStated ==
    (LoadEnded /\ call.result # "true") => Database = call.before

\* what holds of a failed load: text that is no JSON changes nothing, and a
\* wrongly typed field leaves the descriptors stored before as they were
C17_StoredDescriptorsKept ==
    (LoadEnded /\ call.result # "true") =>
        /\ ~call.document.parses => Database = call.before
        /\ KeepsEntries(call.before.targets, targets)
        /\ loaded = call.before.loaded

\* C18 as stated: an entry present before a load keeps its value in targets,
\* feature_aliases, family_features and the conversion tables, and loading
\* the same document again changes nothing.
C18_AsStated ==
    LoadEnded =>
        /\ KeepsEntries(call.before.targets, targets)
        /\ KeepsEntries(call.before.feature_aliases, feature_aliases)
        /\ KeepsEntries(call.before.family_features, family_features)
        /\ KeepsEntries(call.before.darwin_flags, darwin_flags)
        /\ KeepsEntries(call.before.arm_vendors, arm_vendors)
        /\ load_from_string(Database, call.document).db = Database

\* what holds of a load: the descriptors are first-write-wins, the other
\* tables keep their keys, and a second load of the same document changes
\* nothing
C18_TargetsFirstWriteWins ==
    LoadEnded =>
        /\ KeepsEntries(call.before.targets, targets)
        /\ DOMAIN call.before.feature_aliases \subseteq DOMAIN feature_aliases
        /\ DOMAIN call.before.family_features \subseteq DOMAIN family_features
        /\ DOMAIN call.before.darwin_flags \subseteq DOMAIN darwin_flags
        /\ DOMAIN call.before.arm_vendors \subseteq DOMAIN arm_vendors
        /\ load_from_string(Database, call.document).db = Database

\* C19 as stated: in every store state reached by the embedded load and any
\* sequence of load_from_string calls, no descriptor is among its own
\* declared or transitive ancestors.
C19_AsStated ==
    \A n \in DOMAIN targets : n \notin DeclaredOrTransitive(targets[n])

\* a cycle closed by a document that defines the missing parent of a stored
\* descriptor
C19_CycleAcrossLoads ==
    /\ LoadEnded
    /\ call.result = "true"
    /\ \E n \in DOMAIN call.before.targets : n \in DeclaredOrTransitive(targets[n])

(***************************************************************************)
(* The singleton under concurrent first calls (SpecInstance).              *)
(***************************************************************************)
\* the threads that have run, or are running, the constructor
Constructors ==
    {t \in Threads : threads[t].constructed
                      \/ threads[t].pc \in {"constructing", "loading"}}

FullyLoaded == \E doc \in EmbeddedDocuments : Database = load_embedded_data(doc)

C20_State ==
    /\ Cardinality(Constructors) <= 1
    /\ \A t \in Threads : threads[t].pc = "ready" =>
            /\ Cardinality({u \in Threads : threads[u].constructed}) = 1
            /\ static_guard = "done"
            /\ FullyLoaded
    /\ \A t \in Threads : \A i \in DOMAIN threads[t].observed :
            threads[t].observed[i].result = Answer(threads[t].observed[i].query)

C20_Frame == static_guard = "done" => UNCHANGED store

\* C20: with several threads calling instance() for the first time, the
\* constructor, and so the embedded load, runs once; a thread holds the
\* reference only once the load is complete; and from then on the tables do
\* not change, so every answer a thread got to get, exists, all or
\* has_feature is still the answer.
C20_InitialisedOnce == []C20_State /\ [][C20_Frame]_vars

\* every thread holds the reference and has read through it; one of them ran
\* the constructor and another arrived while it ran
C20_Witness ==
    /\ \A t \in Threads : threads[t].pc = "ready" /\ threads[t].observed # <<>>
    /\ \E t \in Threads : threads[t].constructed
    /\ \E t \in Threads : threads[t].waited

(***************************************************************************)
(* The translation to the toolchain's names (SpecLlvm).                    *)
(***************************************************************************)
\* a round trip has ended: d is a stored descriptor whose name is a key of
\* the CPU table of its family, and normalize_cpu_name was applied, with d's
\* family, to what get_llvm_cpu_name returned for d
RoundTripOfTableEntry ==
    /\ call.op = "normalize_cpu_name"
    /\ "d" \in DOMAIN call
    /\ \/ family(targets, call.d) = Spelled.aarch64 /\ HasKey(aarch64_cpu_map, call.d.name)
       \/ family(targets, call.d) = Spelled.x86_64 /\ HasKey(x86_64_cpu_map, call.d.name)

C21_AsStated == RoundTripOfTableEntry => call.result = call.d.name

\* the entries that share their toolchain name with another model, and the
\* model that name stands for
SharedEntries ==
    { <<<<"m", "1", "_", "p", "r", "o">>, <<"m", "1">>>>,
      <<<<"m", "1", "_", "m", "a", "x">>, <<"m", "1">>>>,
      <<<<"m", "1", "_", "u", "l", "t", "r", "a">>, <<"m", "1">>>>,
      <<<<"m", "2", "_", "p", "r", "o">>, <<"m", "2">>>>,
      <<<<"m", "2", "_", "m", "a", "x">>, <<"m", "2">>>>,
      <<<<"m", "2", "_", "u", "l", "t", "r", "a">>, <<"m", "2">>>>,
      <<<<"m", "3", "_", "p", "r", "o">>, <<"m", "3">>>>,
      <<<<"m", "3", "_", "m", "a", "x">>, <<"m", "3">>>>,
      <<<<"m", "3", "_", "u", "l", "t", "r", "a">>, <<"m", "3">>>>,
      <<<<"m", "4", "_", "p", "r", "o">>, <<"m", "4">>>>,
      <<<<"m", "4", "_", "m", "a", "x">>, <<"m", "4">>>>,
      <<<<"t", "h", "u", "n", "d", "e", "r", "x", "3">>, <<"t", "h", "u", "n", "d", "e", "r", "x", "2">>>> }

\* C21: for a stored descriptor d whose name n is a key of the CPU table of
\* its family, normalize_cpu_name(d.family(), get_llvm_cpu_name(d)) is n,
\* except for the Pro, Max and Ultra variants of m1..m4, where it is the base
\* model, and for thunderx3, where it is thunderx2.
C21_RoundTrip ==
    RoundTripOfTableEntry =>
        call.result = IF HasKey(SharedEntries, call.d.name)
                      THEN At(SharedEntries, call.d.name)
                      ELSE call.d.name

\* the round trip of Apple's m1, an entry that shares its toolchain name with
\* its variants, gave m1 back
C21_Witness ==
    /\ RoundTripOfTableEntry
    /\ call.d.vendor = "Apple"
    /\ call.d.name = <<"m", "1">>
    /\ call.result = call.d.name

\* the round trip of m2_max ended at m2
C21_VariantGivesBase ==
    /\ RoundTripOfTableEntry
    /\ call.d.name = <<"m", "2", "_", "m", "a", "x">>
    /\ call.result = <<"m", "2">>

\* the filter-out set and the rename table of a family; none for a family
\* the translation has no tables for
FilterOutOf(arch_family) ==
    IF arch_family = Spelled.aarch64 THEN aarch64_filter_out
    ELSE IF arch_family \in {Spelled.x86_64, Spelled.x86} THEN x86_64_filter_out
    ELSE IF arch_family \in {Spelled.riscv64, Spelled.riscv32} THEN riscv_filter_out
    ELSE {}

RenamesOf(arch_family) ==
    IF arch_family = Spelled.aarch64 THEN aarch64_feature_map
    ELSE IF arch_family \in {Spelled.x86_64, Spelled.x86} THEN x86_64_feature_map
    ELSE IF arch_family \in {Spelled.riscv64, Spelled.riscv32} THEN riscv_feature_map
    ELSE {}

Image(arch_family, feature) ==
    IF feature \in FilterOutOf(arch_family) THEN ""
    ELSE IF HasKey(RenamesOf(arch_family), feature) THEN At(RenamesOf(arch_family), feature)
    ELSE feature

\* C22: map_feature_to_llvm(family, feature) is "" when feature is in the
\* family's filter-out set, else the renamed form when the family's rename
\* table has the feature, else feature itself (always feature itself for a
\* family with no tables); and get_llvm_features(d) is exactly the set of
\* the non-empty images of d's features for d.family().
C22_FeatureMapping ==
    /\ call.op = "map_feature_to_llvm" =>
            /\ call.result = Image(call.arch_family, call.feature)
            /\ (FilterOutOf(call.arch_family) = {} /\ RenamesOf(call.arch_family) = {})
                    => call.result = call.feature
    /\ call.op = "get_llvm_features" =>
            call.result = {Image(family(targets, call.d), feat) : feat \in call.d.features}
                            \ {""}

\* the features of an aarch64 descriptor with a filtered feature (cpuid), a
\* feature kept as it is (sha3) and two features renamed to the same name
C22_Witness ==
    /\ call.op = "get_llvm_features"
    /\ family(targets, call.d) = Spelled.aarch64
    /\ call.d.features = {"fp", "cpuid", "sha3", "asimdhp", "fphp"}
    /\ call.result = {"fp-armv8", "sha3", "fullfp16"}

\* the spellings get_llvm_features_for_cpu looks up, in its order, and those
\* of them the store holds
Tries(arch_family, cpu_name) ==
    <<cpu_name, normalize_cpu_name(arch_family, cpu_name), tolower(cpu_name)>>

Hits(arch_family, cpu_name) ==
    SelectSeq(Tries(arch_family, cpu_name), LAMBDA n : exists(targets, n))

\* C23: get_llvm_features_for_cpu(name, family) is the empty string for the
\* sentinels "native" and "generic"; otherwise it is the feature string of
\* the first store hit among the name as given, normalize_cpu_name(family,
\* name) and the lowercased name, and the empty string when none is stored.
C23_FirstHit ==
    call.op = "get_llvm_features_for_cpu" =>
        call.result =
            IF call.cpu_name \in {Spelled.native, Spelled.generic} THEN <<>>
            ELSE IF Hits(call.arch_family, call.cpu_name) = <<>> THEN <<>>
            ELSE get_llvm_features_string(targets,
                    targets[Hits(call.arch_family, call.cpu_name)[1]])

\* znver3, not itself in the store, gave the features of the stored zen3
C23_Witness ==
    /\ call.op = "get_llvm_features_for_cpu"
    /\ call.cpu_name = <<"z", "n", "v", "e", "r", "3">>
    /\ call.arch_family = Spelled.x86_64
    /\ ~exists(targets, call.cpu_name)
    /\ exists(targets, <<"z", "e", "n", "3">>)
    /\ call.result = <<"+", "avx2", ",", "+", "sse3", ",", "+", "sse4.1", ",", "+", "ssse3">>

(***************************************************************************)
(* The C interface: archspec_get_flags (SpecFlags).                        *)
(***************************************************************************)
\* the named descriptor and its stored ancestors
SelfAndAncestors(name) ==
    {targets[name]} \cup {targets[a] : a \in Range(ancestors(targets, targets[name]))
                                            \cap DOMAIN targets}

\* a descriptor carries flags for the compiler: an entry with a flag string
HasFlagsFor(d, compiler) ==
    \E i \in DOMAIN compiler_entries(d, compiler) :
        compiler_entries(d, compiler)[i].flags # <<>>

FlagsExist(name, compiler) ==
    /\ name # NULL /\ compiler # NULL
    /\ exists(targets, name.str)
    /\ \E d \in SelfAndAncestors(name.str) : HasFlagsFor(d, compiler.str)

\* C24: archspec_get_flags(name, compiler) returns a flag string whenever the
\* target exists and it or an ancestor has a flag entry for the compiler,
\* entries whose version constraint has a lower bound included, and returns
\* NULL only when the target is unknown or no flags exist for the compiler.
C24_AsStated ==
    call.op = "archspec_get_flags" =>
        (call.result # NULL <=> FlagsExist(call.name, call.compiler))

\* the only flag entry for the compiler, on the target itself, has a lower
\* bound, and the call returned NULL
C24_LowerBoundGivesNull ==
    /\ call.op = "archspec_get_flags"
    /\ call.name = to_c_string("zen") /\ call.compiler = to_c_string("gcc")
    /\ targets["zen"].compilers = [c \in {"gcc"} |-> <<Gcc4Up>>]
    /\ \A d \in SelfAndAncestors("zen") : d.name # "zen" => ~HasFlagsFor(d, "gcc")
    /\ call.result = NULL

\* the target's entry has a lower bound, the family root's has none, and the
\* call returned the root's flags
C24_RootFlagsReturned ==
    /\ call.op = "archspec_get_flags"
    /\ call.name = to_c_string("zen") /\ call.compiler = to_c_string("gcc")
    /\ targets["zen"].compilers = [c \in {"gcc"} |-> <<Gcc4Up>>]
    /\ call.result = to_c_string(<<"-march=", "x86-64", " -mtune=generic">>)

(***************************************************************************)
(* The stages of host() (SpecHost).                                        *)
(***************************************************************************)
\* the rank host() orders candidates by: ancestor count, then feature count
RankLess(a, b) ==
    \/ Len(ancestors(targets, targets[a])) < Len(ancestors(targets, targets[b]))
    \/ /\ Len(ancestors(targets, targets[a])) = Len(ancestors(targets, targets[b]))
       /\ Cardinality(targets[a].features) < Cardinality(targets[b].features)

HostSelected == call.op = "host" /\ call.compatible # <<>>

GenericCompatible == {c \in Range(call.compatible) : targets[c].vendor = "generic"}

\* the candidates left by the CPU part stage that are above best_generic
AboveBestGeneric ==
    {c \in Range(call.after_cpu_part) :
        operator_gt(targets, targets[c], targets[call.best_generic])}

\* C25: best_generic is a generic-vendor member of the full compatible set
\* of greatest (ancestor count, feature count) rank; when some candidate left
\* by the CPU part stage is strictly greater than best_generic, so is the
\* descriptor host() returns; when none is, the stage above best_generic
\* leaves the candidates as they were.
C25_AboveBestGeneric ==
    HostSelected =>
        IF GenericCompatible = {}
        THEN call.best_generic = nullptr /\ call.candidates = call.after_cpu_part
        ELSE /\ call.best_generic \in GenericCompatible
             /\ \A g \in GenericCompatible : ~RankLess(call.best_generic, g)
             /\ AboveBestGeneric # {} =>
                    operator_gt(targets, call.result, targets[call.best_generic])
             /\ AboveBestGeneric = {} => call.candidates = call.after_cpu_part

\* best_generic was dropped by the CPU part stage and a candidate above it
\* was left
C25_Witness ==
    /\ HostSelected
    /\ GenericCompatible # {}
    /\ ~Contains(call.after_cpu_part, call.best_generic)
    /\ AboveBestGeneric # {}
    /\ operator_gt(targets, call.result, targets[call.best_generic])

CpuPartMatches == {c \in Range(call.compatible) : targets[c].cpu_part = call.info.cpu_part}

\* C26: when the signal has a CPU part and some compatible candidate has the
\* same one, the descriptor host() returns has it; when the signal has none or
\* no candidate matches, the CPU part stage leaves the candidates as they
\* were; so the candidates are not empty after either stage.
C26_CpuPartStage ==
    HostSelected =>
        /\ (call.info.cpu_part # "" /\ CpuPartMatches # {})
                => call.result.cpu_part = call.info.cpu_part
        /\ (call.info.cpu_part = "" \/ CpuPartMatches = {})
                => call.after_cpu_part = call.compatible
        /\ call.after_cpu_part # <<>>
        /\ call.candidates # <<>>

\* some compatible candidates had the signal's CPU part, others did not
C26_Witness ==
    /\ HostSelected
    /\ call.info.cpu_part # ""
    /\ CpuPartMatches # {}
    /\ CpuPartMatches # Range(call.compatible)
    /\ call.result.cpu_part = call.info.cpu_part

\* the signal has a CPU part that no compatible candidate has
C26_NoMatchWitness ==
    /\ HostSelected
    /\ call.info.cpu_part # ""
    /\ CpuPartMatches = {}
    /\ call.after_cpu_part = call.compatible

\* C27: the descriptor host() returns is one of the candidates left by both
\* stages, and no candidate left has a strictly greater rank (ancestor count
\* first, feature count second).
C27_GreatestRemaining ==
    HostSelected =>
        \E c \in Range(call.candidates) :
            /\ call.result = targets[c]
            /\ \A other \in Range(call.candidates) : ~RankLess(c, other)

\* several candidates were left, of different ranks, and the one returned
\* is not the first of them
C27_Witness ==
    /\ HostSelected
    /\ Len(call.candidates) >= 2
    /\ \E a, b \in Range(call.candidates) : RankLess(a, b)
    /\ call.result # targets[call.candidates[1]]
    /\ call.result.name \in Range(call.candidates)

(***************************************************************************)
(* The order of ancestors() (SpecLineage).                                 *)
(***************************************************************************)
\* the declared position of the first parent of d whose own ancestors hold
\* the name
FirstContributor(d, name) ==
    LET contributing == {k \in DOMAIN d.parent_names :
                            /\ exists(targets, d.parent_names[k])
                            /\ Contains(ancestors(targets, targets[d.parent_names[k]]), name)}
    IN  IF contributing = {} THEN 0
        ELSE CHOOSE k \in contributing : \A other \in contributing : k <= other

\* the direct parents first, in declared order; then the other ancestors, in
\* the order of the parents that first contribute them
ParentsFirst(d, result) ==
    LET parents == d.parent_names
        rest == SubSeq(result, Len(parents) + 1, Len(result))
    IN  /\ Len(result) >= Len(parents)
        /\ SubSeq(result, 1, Len(parents)) = parents
        /\ \A i \in DOMAIN rest : ~Contains(parents, rest[i])
        /\ \A i, j \in DOMAIN rest :
                i < j => FirstContributor(d, rest[i]) <= FirstContributor(d, rest[j])

\* C28: in d.ancestors() the direct parents of d come first, in declared
\* order, before every ancestor that is not a direct parent, and the other
\* ancestors follow in the declaration order of the parents that first
\* contribute them.
C28_AsStated == call.op = "ancestors" => ParentsFirst(call.d, call.result)

\* what ancestors() of src/unnamed/part_004 returns has the order
C28_BreadthFirstCopy == \A name \in DOMAIN targets :
    ParentsFirst(targets[name], ancestors(targets, targets[name]))

\* zen2 declared from zen and x86_64_v2: x86_64, brought in by zen, stands
\* before the direct parent x86_64_v2
C28_GrandparentBeforeParent ==
    /\ call.op = "ancestors"
    /\ call.d.parent_names = <<"zen", "x86_64_v2">>
    /\ call.result = <<"zen", "x86_64", "x86_64_v2">>

(***************************************************************************)
(* The constructor's implied feature (SpecLoad).                           *)
(***************************************************************************)
\* the features the document declares for the name
Declared(document, name) ==
    IF "features" \in DOMAIN document.microarchitectures[name]
    THEN document.microarchitectures[name].features
    ELSE {}

\* the names the load has added to the store
NewlyStored == DOMAIN targets \ DOMAIN call.before.targets

\* C29: every stored descriptor, after the embedded load and after any loads
\* that follow, has sse3 if it has ssse3; and a descriptor a load has stored
\* has the features its document declares and nothing else but that sse3.
C29_ImpliedFeature ==
    /\ \A name \in DOMAIN targets :
            "ssse3" \in targets[name].features => "sse3" \in targets[name].features
    /\ LoadEnded =>
            \A name \in NewlyStored :
                targets[name].features =
                    Declared(call.document, name)
                        \cup (IF "ssse3" \in Declared(call.document, name)
                              THEN {"sse3"} ELSE {})

\* a load has stored nehalem, declared with ssse3 and without sse3, next to
\* nocona, declared with sse3 alone
C29_Witness ==
    /\ LoadEnded
    /\ {"nehalem", "nocona"} \subseteq NewlyStored
    /\ Declared(call.document, "nehalem") = {"ssse3", "sse4_1"}
    /\ targets["nehalem"].features = {"ssse3", "sse4_1", "sse3"}
    /\ targets["nocona"].features = {"sse3"}

(***************************************************************************)
(* The init cache of the C interface (SpecCache).                          *)
(***************************************************************************)
Statics == {"s_host_name", "s_host_vendor", "s_target_names"}

\* the pointers the callers hold
HeldPointers ==
    {r \in {threads[t].returned[1] : t \in {u \in Threads : threads[u].returned # <<>>}} :
        "into" \in DOMAIN r}

\* C30: with several threads making their first calls at once, each cached
\* static is assigned by one initialization only, so a pointer a caller holds
\* still points into the static as it was when the pointer was taken, and the
\* content is what that initialization wrote.
C30_AsStated ==
    /\ \A static \in Statics : cache[static].writes <= 1 /\ cache[static].determinate
    /\ \A pointer \in HeldPointers : pointer.writes = cache[pointer.into].writes

\* a caller holds the host name while a second initialization has assigned
\* s_host_name again
C30_PointerOutlived ==
    \E pointer \in HeldPointers :
        /\ pointer.into = "s_host_name"
        /\ pointer.writes = 1
        /\ cache.s_host_name.writes = 2

\* two initializations assigned the target names at the same time
C30_RacingAssignment == ~cache.s_target_names.determinate

====
